---- MODULE Spec2Model ----
(***************************************************************************)
(* Pass-Man credential vault core: groups, memberships, password records,  *)
(* their change history and their access log, with the service-layer       *)
(* operations of apps/groups/services.py and apps/passwords/services.py.   *)
(*                                                                         *)
(* Strings are sequences of one-character strings, so that strip(),        *)
(* icontains and the validators are computed as the code computes them.    *)
(* Database tables are functions from primary keys to rows (passwords,     *)
(* groups, history, access_logs) or sets of rows (usergroups).             *)
(***************************************************************************)
EXTENDS Integers, Sequences, FiniteSets, TLC

VARIABLES groups, usergroups, passwords, history, access_logs, clock, result, inflight,
          directories

vars == <<groups, usergroups, passwords, history, access_logs, clock, result, inflight,
          directories>>

dbvars == <<groups, usergroups, passwords, history, access_logs, directories>>

(***************************************************************************)
(* Bounds of the model.                                                    *)
(***************************************************************************)
\* timezone.now() is a logical clock that advances with every timestamp taken;
\* each specification stops taking timestamps at its MaxClock and stops
\* mutating a record whose history holds its MaxHistory rows
MaxClock == 1
MaxHistory == 2
\* SpecConc: the reads that record an access
MaxGets == 2

Users == {"u1", "u2", "u3"}
GroupIds == {"g1", "g2"}
PasswordIds == {"p1", "p2"}
Requests == {"r1", "r2"}

NoUser == "nobody"
NoTime == -1

(***************************************************************************)
(* Strings.                                                                *)
(***************************************************************************)
LowerChars == <<"a","b","c","d","e","f","g","h","i","j","k","l","m",
                "n","o","p","q","r","s","t","u","v","w","x","y","z">>
UpperChars == <<"A","B","C","D","E","F","G","H","I","J","K","L","M",
                "N","O","P","Q","R","S","T","U","V","W","X","Y","Z">>
DigitChars == <<"0","1","2","3","4","5","6","7","8","9">>
\* the class [!@#$%^&*(),.?":{}|<>] of the validators
SymbolChars == {"!","@","#","$","%","^","&","*","(",")",",",".","?","\"",":","{","}","|","<",">"}
\* the class [<>"'] rejected in titles and tags
InvalidChars == {"<", ">", "\"", "'"}

Range(s) == {s[i] : i \in DOMAIN s}

LowerSet == Range(LowerChars)
UpperSet == Range(UpperChars)
DigitSet == Range(DigitChars)

IndexIn(c, alphabet) == IF \E i \in DOMAIN alphabet : alphabet[i] = c
                        THEN CHOOSE i \in DOMAIN alphabet : alphabet[i] = c
                        ELSE 0

\* str.lower() of one character
ToLower == [c \in Range(UpperChars) |-> LowerChars[IndexIn(c, UpperChars)]]

LowerChar(c) == IF c \in DOMAIN ToLower THEN ToLower[c] ELSE c

Lower(s) == [i \in DOMAIN s |-> LowerChar(s[i])]

RECURSIVE LStrip(_)
LStrip(s) == IF s # <<>> /\ Head(s) = " " THEN LStrip(Tail(s)) ELSE s

RECURSIVE RStrip(_)
RStrip(s) == IF s # <<>> /\ s[Len(s)] = " " THEN RStrip(SubSeq(s, 1, Len(s) - 1)) ELSE s

Strip(s) == RStrip(LStrip(s))

\* q occurs in s as a substring
Contains(s, q) == \E i \in 0..(Len(s) - Len(q)) : SubSeq(s, i + 1, i + Len(q)) = q

\* icontains: case-insensitive containment
IContains(s, q) == Contains(Lower(s), Lower(q))

(***************************************************************************)
(* Request payloads (the password_data dict).  A payload is a function     *)
(* whose domain is the set of keys present.  JSON-typed values carry the   *)
(* Python type they arrive with:                                           *)
(*   tags          [ty: "list" | "none" | "other", items: Seq of [ty, s]]  *)
(*   custom_fields [ty: "dict" | "none" | "other", kv: Seq of [kty,k,vty,v]]*)
(***************************************************************************)
Get(d, k, default) == IF k \in DOMAIN d THEN d[k] ELSE default

EmptyTags == [ty |-> "list", items |-> <<>>]
EmptyFields == [ty |-> "dict", kv |-> <<>>]

Priorities == {"low", "medium", "high", "critical"}

\* Limits of PasswordValidator and of the Password model's columns
TitleMinLen == 2
TitleMaxLen == 255
UsernameMaxLen == 255
UrlMaxLen == 2000
UrlFieldMaxLen == 200
NotesMaxLen == 5000
FieldNameMaxLen == 100
FieldValueMaxLen == 1000
MaxTags == 20
TagMaxLen == 50
SecretMinLen == 8
SecretMaxLen == 128
SecretLongLen == 12
MinComplexity == 3
\* search_passwords: expires_soon looks 30 days ahead
ExpiresSoonDays == 30

\* django.core.validators.URLValidator, reduced to: a non-empty scheme, "://",
\* a non-empty host, and no blank anywhere
UrlValid(url) ==
    /\ " " \notin Range(url)
    /\ \E i \in 2..(Len(url) - 3) :
          /\ SubSeq(url, i, i + 2) = <<":", "/", "/">>
          /\ \A j \in 1..(i - 1) : url[j] \in LowerSet \cup UpperSet

TitleErrors(d) ==
    LET title == Strip(Get(d, "title", <<>>))
    IN  IF title = <<>> THEN {"required"}
        ELSE (IF Len(title) < TitleMinLen THEN {"short"} ELSE {})
             \cup (IF Len(title) > TitleMaxLen THEN {"long"} ELSE {})
             \cup (IF Range(title) \cap InvalidChars # {} THEN {"chars"} ELSE {})

UsernameErrors(d) ==
    LET username == Strip(Get(d, "username", <<>>))
    IN  IF username # <<>> /\ Len(username) > UsernameMaxLen THEN {"long"} ELSE {}

UrlErrors(d) ==
    LET url == Strip(Get(d, "url", <<>>))
    IN  IF url = <<>> THEN {}
        ELSE (IF Len(url) > UrlMaxLen THEN {"long"} ELSE {})
             \cup (IF ~UrlValid(url) THEN {"invalid"} ELSE {})

NotesErrors(d) ==
    LET notes == Strip(Get(d, "notes", <<>>))
    IN  IF notes # <<>> /\ Len(notes) > NotesMaxLen THEN {"long"} ELSE {}

PriorityErrors(d) ==
    LET priority == Get(d, "priority", "")
    IN  IF priority # "" /\ priority \notin Priorities THEN {"choice"} ELSE {}

CustomFieldsErrors(d) ==
    LET cf == Get(d, "custom_fields", [ty |-> "none", kv |-> <<>>])
    IN  IF cf.ty = "none" THEN {}
        ELSE IF cf.ty # "dict" THEN {"type"}
        ELSE UNION { IF e.kty # "str" THEN {"name type"}
                     ELSE (IF Len(e.k) > FieldNameMaxLen THEN {"name long"} ELSE {})
                          \cup (IF e.vty \notin {"str", "int", "float", "bool"}
                                THEN {"value type"} ELSE {})
                          \cup (IF e.vty = "str" /\ Len(e.v) > FieldValueMaxLen
                                THEN {"value long"} ELSE {})
                   : e \in Range(cf.kv) }

TagsErrors(d) ==
    LET tags == Get(d, "tags", [ty |-> "none", items |-> <<>>])
    IN  IF tags.ty = "none" THEN {}
        ELSE IF tags.ty # "list" THEN {"type"}
        ELSE IF Len(tags.items) > MaxTags THEN {"count"}
        ELSE UNION { IF t.ty # "str" THEN {"tag type"}
                     ELSE IF Strip(t.s) = <<>> THEN {"empty"}
                     ELSE (IF Len(Strip(t.s)) > TagMaxLen THEN {"long"} ELSE {})
                          \cup (IF Range(Strip(t.s)) \cap InvalidChars # {}
                                THEN {"chars"} ELSE {})
                   : t \in Range(tags.items) }

\* PasswordValidator(password_data).is_valid()
PasswordValidator(d) ==
    /\ TitleErrors(d) = {}
    /\ UsernameErrors(d) = {}
    /\ UrlErrors(d) = {}
    /\ NotesErrors(d) = {}
    /\ PriorityErrors(d) = {}
    /\ CustomFieldsErrors(d) = {}
    /\ TagsErrors(d) = {}

(***************************************************************************)
(* PasswordStrengthValidator.                                              *)
(***************************************************************************)
KeyboardPatterns == {<<"q","w","e","r","t","y">>,
    <<"a","s","d","f">>,
    <<"z","x","c","v">>,
    <<"1","2","3","4">>,
    <<"q","w","e","r">>,
    <<"a","s","d","f","g">>,
    <<"z","x","c","v","b">>}

CommonPasswords == {<<"p","a","s","s","w","o","r","d">>,
    <<"1","2","3","4","5","6">>,
    <<"1","2","3","4","5","6","7","8","9">>,
    <<"q","w","e","r","t","y">>,
    <<"a","b","c","1","2","3">>,
    <<"p","a","s","s","w","o","r","d","1","2","3">>,
    <<"a","d","m","i","n">>,
    <<"l","e","t","m","e","i","n">>,
    <<"w","e","l","c","o","m","e">>,
    <<"m","o","n","k","e","y">>,
    <<"1","2","3","4","5","6","7","8","9","0">>,
    <<"p","a","s","s","w","o","r","d","1">>,
    <<"1","2","3","1","2","3">>,
    <<"q","w","e","r","t","y","1","2","3">>,
    <<"i","l","o","v","e","y","o","u">>,
    <<"p","r","i","n","c","e","s","s">>,
    <<"a","d","m","i","n","1","2","3">>,
    <<"w","e","l","c","o","m","e","1","2","3">>}

HasLowercase(pw) == \E i \in DOMAIN pw : pw[i] \in LowerSet
HasUppercase(pw) == \E i \in DOMAIN pw : pw[i] \in UpperSet
HasNumbers(pw) == \E i \in DOMAIN pw : pw[i] \in DigitSet
HasSymbols(pw) == \E i \in DOMAIN pw : pw[i] \in SymbolChars

ComplexityCount(pw) ==
    (IF HasLowercase(pw) THEN 1 ELSE 0) + (IF HasUppercase(pw) THEN 1 ELSE 0)
    + (IF HasNumbers(pw) THEN 1 ELSE 0) + (IF HasSymbols(pw) THEN 1 ELSE 0)

\* (.)\1{2,}
HasRepeatedChars(pw) ==
    \E i \in 1..(Len(pw) - 2) : pw[i] = pw[i + 1] /\ pw[i + 1] = pw[i + 2]

\* (012|123|234|345|456|567|678|789|890)
HasSequentialNumbers(pw) ==
    \E i \in 1..(Len(pw) - 2) :
        LET a == IndexIn(pw[i], DigitChars)
            b == IndexIn(pw[i + 1], DigitChars)
            c == IndexIn(pw[i + 2], DigitChars)
        IN  /\ a > 0 /\ b > 0 /\ c > 0
            /\ \/ (b = a + 1 /\ c = b + 1)
               \/ (a = 9 /\ b = 10 /\ c = 1)

\* (abc|bcd|...|xyz) on the lower-cased secret
HasSequentialLetters(pw) ==
    \E i \in 1..(Len(pw) - 2) :
        LET a == IndexIn(LowerChar(pw[i]), LowerChars)
            b == IndexIn(LowerChar(pw[i + 1]), LowerChars)
            c == IndexIn(LowerChar(pw[i + 2]), LowerChars)
        IN  a > 0 /\ b = a + 1 /\ c = b + 1

HasKeyboardPattern(pw) ==
    LET low == Lower(pw)
    IN  \E k \in KeyboardPatterns : Contains(low, k)

\* re.sub(r'[0-9!@#...]', '', password.lower())
BasePassword(pw) ==
    LET low == Lower(pw)
        keep == {i \in DOMAIN low : low[i] \notin DigitSet \cup SymbolChars}
        RECURSIVE Pick(_)
        Pick(i) == IF i > Len(low) THEN <<>>
                   ELSE IF i \in keep THEN <<low[i]>> \o Pick(i + 1)
                   ELSE Pick(i + 1)
    IN  Pick(1)

\* PasswordStrengthValidator({'password': pw}).is_valid()
PasswordStrengthValidator(pw) ==
    /\ pw # <<>>
    /\ Len(pw) >= SecretMinLen
    /\ Len(pw) <= SecretMaxLen
    /\ ComplexityCount(pw) >= MinComplexity
    /\ (Len(pw) >= SecretLongLen => HasSymbols(pw))
    /\ ~HasRepeatedChars(pw)
    /\ ~HasSequentialNumbers(pw)
    /\ ~HasSequentialLetters(pw)
    /\ ~HasKeyboardPattern(pw)
    /\ Lower(pw) \notin CommonPasswords
    /\ BasePassword(pw) \notin CommonPasswords

(***************************************************************************)
(* State.                                                                  *)
(*   groups       Group rows by id: owner, is_personal, encryption_key     *)
(*   usergroups   UserGroup rows: user, group, role (unique on user,group) *)
(*   passwords    Password rows by id (soft-deleted rows included)         *)
(*   history      PasswordHistory rows of each record, oldest first        *)
(*   access_logs  PasswordAccessLog rows of each record, oldest first      *)
(*   clock        timezone.now()                                           *)
(*   result       what the last service call returned or raised           *)
(*   inflight     get_password requests between two of their statements    *)
(***************************************************************************)
Roles == {"owner", "admin", "member"}

EmptyDict == <<>>

Idle == [pc |-> "idle"]

Reply(op, user, target, kind, msg, rows) ==
    [op |-> op, user |-> user, target |-> target, kind |-> kind, msg |-> msg, rows |-> rows]

Init ==
    /\ groups = <<>>
    /\ usergroups = {}
    /\ passwords = <<>>
    /\ history = <<>>
    /\ access_logs = <<>>
    /\ clock = 0
    /\ result = Reply("init", NoUser, "", "ok", "", {})
    /\ inflight = [r \in Requests |-> Idle]
    /\ directories = <<>>

\* f without the keys in S
Without(f, S) == [k \in (DOMAIN f) \ S |-> f[k]]

(***************************************************************************)
(* Access policy.                                                          *)
(***************************************************************************)
\* UserGroup.objects.filter(user=user, group=group)
Memberships(user, g) == {m \in usergroups : m.user = user /\ m.group = g}

HasMembership(user, g) == Memberships(user, g) # {}

\* .first().role, "none" when there is no row
RoleOf(user, g) ==
    IF HasMembership(user, g) THEN (CHOOSE m \in Memberships(user, g) : TRUE).role ELSE "none"

CanUserCreatePassword(user, g) ==
    \/ groups[g].owner = user
    \/ RoleOf(user, g) \in {"member", "admin"}

CanUserViewPasswordMembersOnly(user, pw) ==
    \/ groups[pw.group].owner = user
    \/ HasMembership(user, pw.group)

CanUserViewPassword(user, pw) ==
    \/ pw.created_by = user
    \/ groups[pw.group].owner = user
    \/ HasMembership(user, pw.group)

CanUserEditPasswordNoCreator(user, pw) ==
    \/ groups[pw.group].owner = user
    \/ RoleOf(user, pw.group) = "admin"

CanUserEditPasswordAnyMember(user, pw) ==
    \/ pw.created_by = user
    \/ groups[pw.group].owner = user
    \/ RoleOf(user, pw.group) \in {"admin", "member"}

CanUserEditPassword(user, pw) ==
    \/ pw.created_by = user
    \/ groups[pw.group].owner = user
    \/ RoleOf(user, pw.group) = "admin"

CanUserDeletePassword(user, pw) == CanUserEditPassword(user, pw)

CanUserManageMembersByRole(user, g) == RoleOf(user, g) \in {"owner", "admin"}

CanUserManageMembersAnyMember(user, g) == groups[g].owner = user \/ HasMembership(user, g)

CanUserManageMembers(user, g) ==
    \/ groups[g].owner = user
    \/ RoleOf(user, g) = "admin"

UserAccessibleGroupsAll(user) == DOMAIN groups

\* Group.objects.filter(Q(owner=user) | Q(usergroup__user=user))
UserAccessibleGroups(user) ==
    {g \in DOMAIN groups : groups[g].owner = user \/ HasMembership(user, g)}

(***************************************************************************)
(* GroupService.                                                           *)
(***************************************************************************)
\* the error get_group raises, "" when it returns the group
GetGroupError(user, g) ==
    IF g \notin DOMAIN groups THEN "Group not found"
    ELSE IF ~(groups[g].owner = user \/ HasMembership(user, g)) THEN "no access to group"
    ELSE ""

\* UserGroup.clean(): the role a row may be saved with
UserGroupCleanAnyRole(user, g, role) == role \in Roles

UserGroupClean(user, g, role) ==
    /\ (groups[g].owner = user => role = "owner")
    /\ (role = "owner" => groups[g].owner = user)

\* Group.name: CharField(max_length=100), and the same limit in the service
GroupNameMaxLen == 100

\* the end of the name create_default_personal_group gives and looks for
VaultSuffix == <<"'s Personal Vault">>
\* user.full_name
FullName(user) == <<user>>
\* the name a group is created under when the caller sends no other
DefaultName(g) == <<g>>

EndsWith(s, suffix) ==
    /\ Len(s) >= Len(suffix)
    /\ SubSeq(s, Len(s) - Len(suffix) + 1, Len(s)) = suffix

\* Group.objects.filter(owner=user, name=name).exclude(id in except).exists()
NameTaken(user, name, except) ==
    \E h \in DOMAIN groups \ except : groups[h].owner = user /\ groups[h].name = name

\* Group._generate_encryption_key: a fresh random key, never empty
GenerateEncryptionKey(g) == <<"key", g>>

\* Model.full_clean() of the Group row with primary key g, then Group.clean()
GroupFullClean(row, g) ==
    /\ row.name # <<>> /\ Len(row.name) <= GroupNameMaxLen
    /\ Strip(row.name) # <<>>
    /\ ~NameTaken(row.owner, row.name, {g})

GroupSavedNewKey(row, g) ==
    [row EXCEPT !.name = Strip(@), !.encryption_key = <<"key", g, @>>]

\* Group.save(): the row as written; the key is generated only when there is none
GroupSaved(row, g) ==
    [row EXCEPT !.name = Strip(@),
                !.encryption_key = IF @ = <<>> THEN GenerateEncryptionKey(g) ELSE @]

NewGroup(user, g, personal) ==
    [owner |-> user, is_personal |-> personal, encryption_key |-> GenerateEncryptionKey(g),
     name |-> IF personal THEN FullName(user) \o VaultSuffix ELSE DefaultName(g),
     description |-> <<>>]

\* [kind, msg] of create_group(user, group_data) when the new row gets primary key g
CreateGroupOutcome(user, g, group_data) ==
    LET name == Strip(Get(group_data, "name", <<>>))
        row == [NewGroup(user, g, FALSE) EXCEPT !.name = name, !.encryption_key = <<>>,
                    !.description = Strip(Get(group_data, "description", <<>>))]
    IN  IF name = <<>> THEN <<"ValidationError", "Group name is required">>
        ELSE IF Len(name) > GroupNameMaxLen THEN <<"ValidationError", "Group name too long">>
        ELSE IF NameTaken(user, name, {}) THEN <<"ValidationError", "name exists">>
        ELSE IF ~GroupFullClean(row, g) THEN <<"ServiceError", "Failed to create group">>
        ELSE <<"ok", "">>

CreateGroupWithEffectNoMembership(user, g, group_data) ==
    /\ g \notin DOMAIN groups
    /\ IF CreateGroupOutcome(user, g, group_data)[1] = "ok"
       THEN groups' = groups @@ (g :> GroupSaved(
                         [NewGroup(user, g, FALSE) EXCEPT
                              !.name = Strip(group_data["name"]), !.encryption_key = <<>>,
                              !.description = Strip(Get(group_data, "description", <<>>))], g))
       ELSE UNCHANGED groups
    /\ UNCHANGED <<usergroups, passwords, history, access_logs, clock, inflight>>
    /\ UNCHANGED directories

\* GroupService.create_group: the group and its OWNER membership, in one transaction
CreateGroupWithEffect(user, g, group_data) ==
    /\ g \notin DOMAIN groups
    /\ IF CreateGroupOutcome(user, g, group_data)[1] = "ok"
       THEN /\ groups' = groups @@ (g :> GroupSaved(
                              [NewGroup(user, g, FALSE) EXCEPT
                                   !.name = Strip(group_data["name"]), !.encryption_key = <<>>,
                                   !.description = Strip(Get(group_data, "description", <<>>))], g))
            /\ usergroups' = usergroups \cup {[user |-> user, group |-> g, role |-> "owner"]}
       ELSE UNCHANGED <<groups, usergroups>>
    /\ UNCHANGED <<passwords, history, access_logs, clock, inflight>>
    /\ UNCHANGED directories

CreateGroupWith(user, g, group_data) ==
    /\ CreateGroupWithEffect(user, g, group_data)
    /\ result' = Reply("create_group", user, g, CreateGroupOutcome(user, g, group_data)[1],
                       CreateGroupOutcome(user, g, group_data)[2], {})

\* create_group with a name no other group has
CreateGroupEffect(user, g) ==
    /\ g \notin DOMAIN groups
    /\ groups' = groups @@ (g :> NewGroup(user, g, FALSE))
    /\ usergroups' = usergroups \cup {[user |-> user, group |-> g, role |-> "owner"]}
    /\ UNCHANGED <<passwords, history, access_logs, clock, inflight>>
    /\ UNCHANGED directories

CreateGroup(user, g) ==
    /\ CreateGroupEffect(user, g)
    /\ result' = Reply("create_group", user, g, "ok", "", {})

\* the groups create_default_personal_group takes for the user's personal group
PersonalGroupsOf(user) ==
    {h \in DOMAIN groups : groups[h].owner = user /\ EndsWith(groups[h].name, VaultSuffix)}

\* GroupService.create_default_personal_group: returns the group found, or
\* creates the personal group and its OWNER membership in one transaction
CreateDefaultPersonalGroupOutcome(user, g) ==
    IF PersonalGroupsOf(user) # {} THEN <<"ok", "exists">>
    ELSE IF ~GroupFullClean(NewGroup(user, g, TRUE), g)
         THEN <<"ServiceError", "Failed to create personal group">>
    ELSE <<"ok", "">>

CreateDefaultPersonalGroupEffect(user, g) ==
    /\ g \notin DOMAIN groups
    /\ IF CreateDefaultPersonalGroupOutcome(user, g) = <<"ok", "">>
       THEN /\ groups' = groups @@ (g :> GroupSaved(
                              [NewGroup(user, g, TRUE) EXCEPT !.encryption_key = <<>>], g))
            /\ usergroups' = usergroups \cup {[user |-> user, group |-> g, role |-> "owner"]}
       ELSE UNCHANGED <<groups, usergroups>>
    /\ UNCHANGED <<passwords, history, access_logs, clock, inflight>>
    /\ UNCHANGED directories

CreateDefaultPersonalGroup(user, g) ==
    /\ CreateDefaultPersonalGroupEffect(user, g)
    /\ result' = Reply("create_default_personal_group", user,
                       IF PersonalGroupsOf(user) # {} THEN CHOOSE h \in PersonalGroupsOf(user) : TRUE
                       ELSE g,
                       CreateDefaultPersonalGroupOutcome(user, g)[1],
                       CreateDefaultPersonalGroupOutcome(user, g)[2], {})

\* GroupService._can_user_edit_group
CanUserEditGroup(user, g) == groups[g].owner = user

\* Group.objects.create(name=..., owner=...): a group saved without a membership row
GroupObjectsCreateEffect(user, g) ==
    /\ g \notin DOMAIN groups
    /\ groups' = groups @@ (g :> NewGroup(user, g, FALSE))
    /\ UNCHANGED <<usergroups, passwords, history, access_logs, clock, inflight>>
    /\ UNCHANGED directories

GroupObjectsCreate(user, g) ==
    /\ GroupObjectsCreateEffect(user, g)
    /\ result' = Reply("Group.objects.create", user, g, "ok", "", {})

GetGroupEffect(user, g) ==
    /\ UNCHANGED <<dbvars, clock, inflight>>
    /\ UNCHANGED directories

GetGroup(user, g) ==
    /\ GetGroupEffect(user, g)
    /\ result' = IF GetGroupError(user, g) = ""
                 THEN Reply("get_group", user, g, "ok", "", {})
                 ELSE Reply("get_group", user, g, "ServiceError", GetGroupError(user, g), {})

\* the row update_group saves
UpdatedGroup(g, group_data) ==
    [groups[g] EXCEPT
        !.name = IF "name" \in DOMAIN group_data THEN Strip(group_data["name"]) ELSE @,
        !.description = IF "description" \in DOMAIN group_data
                        THEN Strip(group_data["description"]) ELSE @]

\* [kind, msg] of update_group
UpdateGroupOutcome(user, g, group_data) ==
    IF GetGroupError(user, g) # "" THEN <<"ServiceError", GetGroupError(user, g)>>
    ELSE IF ~CanUserEditGroup(user, g) THEN <<"ServiceError", "cannot edit group">>
    ELSE IF "name" \in DOMAIN group_data /\ Strip(group_data["name"]) = <<>>
         THEN <<"ValidationError", "Group name is required">>
    ELSE IF "name" \in DOMAIN group_data /\ Len(Strip(group_data["name"])) > GroupNameMaxLen
         THEN <<"ValidationError", "Group name too long">>
    ELSE IF "name" \in DOMAIN group_data
            /\ NameTaken(groups[g].owner, Strip(group_data["name"]), {g})
         THEN <<"ValidationError", "name exists">>
    ELSE IF ~GroupFullClean(UpdatedGroup(g, group_data), g)
         THEN <<"ServiceError", "Failed to update group">>
    ELSE <<"ok", "">>

UpdateGroupEffect(user, g, group_data) ==
    /\ groups' = IF UpdateGroupOutcome(user, g, group_data)[1] = "ok"
                 THEN [groups EXCEPT ![g] = GroupSaved(UpdatedGroup(g, group_data), g)]
                 ELSE groups
    /\ UNCHANGED <<usergroups, passwords, history, access_logs, clock, inflight>>
    /\ UNCHANGED directories

UpdateGroup(user, g, group_data) ==
    /\ UpdateGroupEffect(user, g, group_data)
    /\ result' = Reply("update_group", user, g, UpdateGroupOutcome(user, g, group_data)[1],
                       UpdateGroupOutcome(user, g, group_data)[2], {})

\* [kind, msg] of add_member
AddMemberOutcome(user, g, target, role) ==
    IF GetGroupError(user, g) # "" THEN <<"ServiceError", GetGroupError(user, g)>>
    ELSE IF ~CanUserManageMembers(user, g) THEN <<"ServiceError", "cannot manage members">>
    ELSE IF target \notin Users THEN <<"ValidationError", "user not found">>
    ELSE IF HasMembership(target, g) THEN <<"ValidationError", "already a member">>
    ELSE IF target = groups[g].owner THEN <<"ValidationError", "owner is a member">>
    ELSE IF role \notin Roles THEN <<"ValidationError", "invalid role">>
    ELSE IF ~UserGroupClean(target, g, role) THEN <<"ServiceError", "Failed to add member">>
    ELSE <<"ok", "">>

AddMemberEffect(user, g, target, role) ==
    LET o == AddMemberOutcome(user, g, target, role)
    IN  /\ usergroups' = IF o[1] = "ok"
                         THEN usergroups \cup {[user |-> target, group |-> g, role |-> role]}
                         ELSE usergroups
        /\ UNCHANGED <<groups, passwords, history, access_logs, clock, inflight>>
        /\ UNCHANGED directories

AddMember(user, g, target, role) ==
    /\ AddMemberEffect(user, g, target, role)
    /\ result' = Reply("add_member", user, g, AddMemberOutcome(user, g, target, role)[1], AddMemberOutcome(user, g, target, role)[2], {})

\* member_id is the primary key of a UserGroup row: here the pair <<user, group>>
MemberRows(member_id, g) ==
    {m \in usergroups : <<m.user, m.group>> = member_id /\ m.group = g}

MemberChangeOutcome(user, g, member_id) ==
    IF GetGroupError(user, g) # "" THEN <<"ServiceError", GetGroupError(user, g)>>
    ELSE IF ~CanUserManageMembers(user, g) THEN <<"ServiceError", "cannot manage members">>
    ELSE IF MemberRows(member_id, g) = {} THEN <<"ServiceError", "Member not found">>
    ELSE IF member_id[1] = groups[g].owner THEN <<"ServiceError", "cannot change owner">>
    ELSE <<"ok", "">>

\* a removal that answers as remove_member does and leaves the membership row
RemoveMemberEffectKeepsRow(user, g, member_id) ==
    /\ UNCHANGED <<groups, usergroups, passwords, history, access_logs, clock, inflight>>
    /\ UNCHANGED directories

RemoveMemberEffect(user, g, member_id) ==
    LET o == MemberChangeOutcome(user, g, member_id)
    IN  /\ usergroups' = IF o[1] = "ok" THEN usergroups \ MemberRows(member_id, g)
                         ELSE usergroups
        /\ UNCHANGED <<groups, passwords, history, access_logs, clock, inflight>>
        /\ UNCHANGED directories

RemoveMember(user, g, member_id) ==
    /\ RemoveMemberEffect(user, g, member_id)
    /\ result' = Reply("remove_member", user, g, MemberChangeOutcome(user, g, member_id)[1], MemberChangeOutcome(user, g, member_id)[2], {})

ChangeMemberRoleOutcome(user, g, member_id, new_role) ==
    IF MemberChangeOutcome(user, g, member_id)[1] # "ok"
    THEN MemberChangeOutcome(user, g, member_id)
    ELSE IF new_role \notin Roles THEN <<"ValidationError", "invalid role">>
    ELSE IF ~UserGroupClean(member_id[1], g, new_role)
         THEN <<"ServiceError", "Failed to change member role">>
    ELSE <<"ok", "">>

ChangeMemberRoleEffect(user, g, member_id, new_role) ==
    LET o == ChangeMemberRoleOutcome(user, g, member_id, new_role)
    IN  /\ usergroups' =
              IF o[1] = "ok"
              THEN (usergroups \ MemberRows(member_id, g))
                   \cup {[user |-> member_id[1], group |-> g, role |-> new_role]}
              ELSE usergroups
        /\ UNCHANGED <<groups, passwords, history, access_logs, clock, inflight>>
        /\ UNCHANGED directories

ChangeMemberRole(user, g, member_id, new_role) ==
    /\ ChangeMemberRoleEffect(user, g, member_id, new_role)
    /\ result' = Reply("change_member_role", user, g, ChangeMemberRoleOutcome(user, g, member_id, new_role)[1], ChangeMemberRoleOutcome(user, g, member_id, new_role)[2], {})

DeleteGroupOutcomeAnyKind(user, g) ==
    IF GetGroupError(user, g) # "" THEN <<"ServiceError", GetGroupError(user, g)>>
    ELSE IF groups[g].owner # user THEN <<"ServiceError", "only owner can delete">>
    ELSE <<"ok", "">>

DeleteGroupOutcome(user, g) ==
    IF GetGroupError(user, g) # "" THEN <<"ServiceError", GetGroupError(user, g)>>
    ELSE IF groups[g].owner # user THEN <<"ServiceError", "only owner can delete">>
    ELSE IF groups[g].is_personal THEN <<"ServiceError", "personal group">>
    ELSE <<"ok", "">>

\* the records removed with group g (on_delete=CASCADE)
PasswordsOf(g) == {p \in DOMAIN passwords : passwords[p].group = g}

\* the directories whose parent is in the set S
Subdirectories(S) == {d \in DOMAIN directories : directories[d].parent \in S}

\* S and everything below it: the rows a delete of S takes along (parent is
\* on_delete=CASCADE), found in at most n rounds
RECURSIVE CascadeFrom(_, _)
CascadeFrom(S, n) == IF n = 0 THEN S ELSE CascadeFrom(S \cup Subdirectories(S), n - 1)

\* the directories removed with group g (group is on_delete=CASCADE)
DirectoriesOf(g) ==
    CascadeFrom({d \in DOMAIN directories : directories[d].group = g},
                Cardinality(DOMAIN directories))

DeleteGroupEffect(user, g) ==
    LET o == DeleteGroupOutcome(user, g)
    IN  /\ IF o[1] = "ok"
           THEN /\ groups' = Without(groups, {g})
                /\ usergroups' = {m \in usergroups : m.group # g}
                /\ passwords' = Without(passwords, PasswordsOf(g))
                /\ history' = Without(history, PasswordsOf(g))
                /\ access_logs' = Without(access_logs, PasswordsOf(g))
                /\ directories' = Without(directories, DirectoriesOf(g))
           ELSE UNCHANGED dbvars
        /\ UNCHANGED <<clock, inflight>>

DeleteGroup(user, g) ==
    /\ DeleteGroupEffect(user, g)
    /\ result' = Reply("delete_group", user, g, DeleteGroupOutcome(user, g)[1], DeleteGroupOutcome(user, g)[2], {})

(***************************************************************************)
(* Password model.                                                         *)
(***************************************************************************)
\* a derivation without the salt: the group key alone decides the result
GenerateKeyUnsalted(group_key, pid) == <<group_key, "">>

\* Password._generate_key: PBKDF2 of the group key, salted with the record id
GenerateKey(group_key, pid) == <<group_key, pid>>

\* Password.encrypt_password: the token decrypts to plain under its own key only
EncryptPassword(g, pid, plain) ==
    [key |-> GenerateKey(groups[g].encryption_key, pid), plain |-> plain]

\* Password.decrypt_password of row pw with primary key pid: <<"ok", plain>>, or
\* ValueError when the group key is missing or the token was made under another key
DecryptPassword(pid, pw) ==
    IF groups[pw.group].encryption_key = <<>> THEN <<"ValueError", <<>>>>
    ELSE IF pw.encrypted_password.key # GenerateKey(groups[pw.group].encryption_key, pid)
         THEN <<"ValueError", <<>>>>
    ELSE <<"ok", pw.encrypted_password.plain>>

\* Model.full_clean() of a Password row: column constraints, then Password.clean()
FullClean(pw) ==
    /\ pw.title # <<>> /\ Len(pw.title) <= TitleMaxLen
    /\ Len(pw.username) <= UsernameMaxLen
    /\ pw.url # <<>> => (UrlValid(pw.url) /\ Len(pw.url) <= UrlFieldMaxLen)
    /\ pw.priority \in Priorities
    /\ pw.custom_fields.ty # "none"
    /\ pw.tags.ty # "none"
    /\ Strip(pw.title) # <<>>
    /\ pw.custom_fields.kv # <<>> => pw.custom_fields.ty = "dict"
    /\ pw.tags.items # <<>> => pw.tags.ty = "list"

\* Password.save(): the row as written, title, username and url stripped
Saved(pw) ==
    [pw EXCEPT !.title = Strip(pw.title), !.username = Strip(pw.username),
               !.url = Strip(pw.url)]

LiveIdsWithDeleted == DOMAIN passwords

\* Password.objects: the default manager hides soft-deleted rows
LiveIds == {p \in DOMAIN passwords : ~passwords[p].is_deleted}

\* Password.all_objects
AllIds == DOMAIN passwords

HistoryEntry(change_type, user, previous_values) ==
    [change_type |-> change_type, changed_by |-> user, previous_values |-> previous_values]

(***************************************************************************)
(* PasswordService.create_password                                         *)
(***************************************************************************)
\* the Password(...) instance built from the payload
NewPassword(user, pid, d) ==
    [title |-> Strip(d["title"]),
     username |-> Strip(Get(d, "username", <<>>)),
     url |-> Strip(Get(d, "url", <<>>)),
     notes |-> Strip(Get(d, "notes", <<>>)),
     group |-> d["group_id"],
     created_by |-> user,
     priority |-> Get(d, "priority", "medium"),
     custom_fields |-> Get(d, "custom_fields", EmptyFields),
     tags |-> Get(d, "tags", EmptyTags),
     encrypted_password |-> EncryptPassword(d["group_id"], pid, d["password"]),
     is_favorite |-> FALSE,
     last_accessed |-> NoTime,
     access_count |-> 0,
     expires_at |-> NoTime,
     is_deleted |-> FALSE,
     deleted_at |-> NoTime,
     deleted_by |-> NoUser]

CreatePasswordOutcome(user, pid, d) ==
    IF ~PasswordValidator(d) THEN <<"ValidationError", "invalid data">>
    ELSE IF Get(d, "group_id", "") = "" THEN <<"ValidationError", "Group is required">>
    ELSE IF d["group_id"] \notin DOMAIN groups THEN <<"ValidationError", "Group not found">>
    ELSE IF ~CanUserCreatePassword(user, d["group_id"])
         THEN <<"PermissionDenied", "cannot create in group">>
    ELSE IF Get(d, "password", <<>>) = <<>> THEN <<"ValidationError", "Password is required">>
    ELSE IF ~PasswordStrengthValidator(d["password"]) THEN <<"ValidationError", "weak password">>
    ELSE IF groups[d["group_id"]].encryption_key = <<>>
         THEN <<"ServiceError", "Failed to create password">>
    ELSE IF ~FullClean(NewPassword(user, pid, d))
         THEN <<"ServiceError", "Failed to create password">>
    ELSE <<"ok", "">>

\* uuid.uuid4 as primary key: an id that no row has and no request in flight holds
FreshId(pid) ==
    /\ pid \notin DOMAIN passwords
    /\ \A r \in Requests : inflight[r].pc # "idle" => inflight[r].pid # pid

CreatePasswordEffect(user, pid, d) ==
    LET o == CreatePasswordOutcome(user, pid, d)
    IN  /\ FreshId(pid)
        /\ IF o[1] = "ok"
           THEN /\ passwords' = passwords @@ (pid :> Saved(NewPassword(user, pid, d)))
                /\ history' = history @@ (pid :> <<HistoryEntry("created", user, EmptyDict)>>)
                /\ access_logs' = access_logs @@ (pid :> <<>>)
           ELSE UNCHANGED <<passwords, history, access_logs>>
        /\ UNCHANGED <<groups, usergroups, clock, inflight>>
        /\ UNCHANGED directories

CreatePassword(user, pid, d) ==
    /\ CreatePasswordEffect(user, pid, d)
    /\ result' = Reply("create_password", user, pid, CreatePasswordOutcome(user, pid, d)[1], CreatePasswordOutcome(user, pid, d)[2], {})

(***************************************************************************)
(* PasswordService.get_password, run as one step                           *)
(***************************************************************************)
GetPasswordOutcome(user, pid) ==
    IF pid \notin LiveIds THEN <<"ServiceError", "Password not found">>
    ELSE IF ~CanUserViewPassword(user, passwords[pid])
         THEN <<"PermissionDenied", "cannot view">>
    ELSE <<"ok", "">>

AccessLogEntry(user, at) == [user |-> user, accessed_at |-> at]

\* Password.record_access on the instance pw read earlier, at time now:
\* save(update_fields=['last_accessed', 'access_count'])
RecordAccessSave(pid, pw, now) ==
    [passwords EXCEPT ![pid].last_accessed = now,
                      ![pid].access_count = pw.access_count + 1]

GetPasswordEffectCountsFirst(user, pid, record_access) ==
    LET o == GetPasswordOutcome(user, pid)
    IN  /\ IF pid \in LiveIds /\ record_access
           THEN /\ passwords' = RecordAccessSave(pid, passwords[pid], clock)
                /\ access_logs' = [access_logs EXCEPT
                                      ![pid] = Append(@, AccessLogEntry(user, clock))]
                /\ clock' = clock + 1
           ELSE UNCHANGED <<passwords, access_logs, clock>>
        /\ UNCHANGED <<groups, usergroups, history, inflight>>
        /\ UNCHANGED directories

GetPasswordEffect(user, pid, record_access) ==
    LET o == GetPasswordOutcome(user, pid)
    IN  /\ IF o[1] = "ok" /\ record_access
           THEN /\ passwords' = RecordAccessSave(pid, passwords[pid], clock)
                /\ access_logs' = [access_logs EXCEPT
                                      ![pid] = Append(@, AccessLogEntry(user, clock))]
                /\ clock' = clock + 1
           ELSE UNCHANGED <<passwords, access_logs, clock>>
        /\ UNCHANGED <<groups, usergroups, history, inflight>>
        /\ UNCHANGED directories

GetPassword(user, pid, record_access) ==
    /\ GetPasswordEffect(user, pid, record_access)
    /\ result' = Reply("get_password", user, pid, GetPasswordOutcome(user, pid)[1], GetPasswordOutcome(user, pid)[2], {})

(***************************************************************************)
(* PasswordService.update_password                                         *)
(***************************************************************************)
PreviousValues(pw) ==
    [title |-> pw.title, username |-> pw.username, url |-> pw.url, notes |-> pw.notes,
     priority |-> pw.priority, custom_fields |-> pw.custom_fields, tags |-> pw.tags]

SetsPassword(d) == Get(d, "password", <<>>) # <<>>

\* an update that never re-encrypts: the stored token stays as it was
UpdatedPasswordKeepsSecret(pid, pw, d) ==
    [pw EXCEPT !.title = Strip(Get(d, "title", pw.title)),
               !.username = Strip(Get(d, "username", pw.username)),
               !.url = Strip(Get(d, "url", pw.url)),
               !.notes = Strip(Get(d, "notes", pw.notes)),
               !.priority = Get(d, "priority", pw.priority),
               !.custom_fields = Get(d, "custom_fields", pw.custom_fields),
               !.tags = Get(d, "tags", pw.tags)]

\* the instance after the field assignments and set_password
UpdatedPassword(pid, pw, d) ==
    [pw EXCEPT !.title = Strip(Get(d, "title", pw.title)),
               !.username = Strip(Get(d, "username", pw.username)),
               !.url = Strip(Get(d, "url", pw.url)),
               !.notes = Strip(Get(d, "notes", pw.notes)),
               !.priority = Get(d, "priority", pw.priority),
               !.custom_fields = Get(d, "custom_fields", pw.custom_fields),
               !.tags = Get(d, "tags", pw.tags),
               !.encrypted_password =
                   IF SetsPassword(d) THEN EncryptPassword(pw.group, pid, d["password"])
                   ELSE pw.encrypted_password]

UpdateChangeType(d) == IF SetsPassword(d) THEN "password_changed" ELSE "updated"

UpdatePasswordOutcome(user, pid, d) ==
    IF pid \notin LiveIds THEN <<"ServiceError", "Password not found">>
    ELSE IF ~CanUserEditPassword(user, passwords[pid])
         THEN <<"PermissionDenied", "cannot edit">>
    ELSE IF ~PasswordValidator(d) THEN <<"ValidationError", "invalid data">>
    ELSE IF SetsPassword(d) /\ ~PasswordStrengthValidator(d["password"])
         THEN <<"ValidationError", "weak password">>
    ELSE IF SetsPassword(d) /\ groups[passwords[pid].group].encryption_key = <<>>
         THEN <<"ServiceError", "Failed to update password">>
    ELSE IF ~FullClean(UpdatedPassword(pid, passwords[pid], d))
         THEN <<"ServiceError", "Failed to update password">>
    ELSE <<"ok", "">>

UpdatePasswordEffectSnapshotAfter(user, pid, d) ==
    LET o == UpdatePasswordOutcome(user, pid, d)
    IN  /\ IF o[1] = "ok"
           THEN /\ passwords' = [passwords EXCEPT
                                    ![pid] = Saved(UpdatedPassword(pid, passwords[pid], d))]
                /\ history' = [history EXCEPT
                                  ![pid] = Append(@, HistoryEntry(UpdateChangeType(d), user,
                                                         PreviousValues(passwords'[pid])))]
           ELSE UNCHANGED <<passwords, history>>
        /\ UNCHANGED <<groups, usergroups, access_logs, clock, inflight>>
        /\ UNCHANGED directories

UpdatePasswordEffect(user, pid, d) ==
    LET o == UpdatePasswordOutcome(user, pid, d)
    IN  /\ IF o[1] = "ok"
           THEN /\ passwords' = [passwords EXCEPT
                                    ![pid] = Saved(UpdatedPassword(pid, passwords[pid], d))]
                /\ history' = [history EXCEPT
                                  ![pid] = Append(@, HistoryEntry(UpdateChangeType(d), user,
                                                         PreviousValues(passwords[pid])))]
           ELSE UNCHANGED <<passwords, history>>
        /\ UNCHANGED <<groups, usergroups, access_logs, clock, inflight>>
        /\ UNCHANGED directories

UpdatePassword(user, pid, d) ==
    /\ UpdatePasswordEffect(user, pid, d)
    /\ result' = Reply("update_password", user, pid, UpdatePasswordOutcome(user, pid, d)[1], UpdatePasswordOutcome(user, pid, d)[2], {})

(***************************************************************************)
(* PasswordService.delete_password                                         *)
(***************************************************************************)
DeletePasswordOutcome(user, pid, permanent) ==
    IF pid \notin (IF permanent THEN AllIds ELSE LiveIds)
    THEN <<"ServiceError", "Password not found">>
    ELSE IF ~CanUserDeletePassword(user, passwords[pid])
         THEN <<"PermissionDenied", "cannot delete">>
    ELSE <<"ok", "">>

\* Password.soft_delete(user) at time now
SoftDelete(pw, user, now) ==
    [pw EXCEPT !.is_deleted = TRUE, !.deleted_at = now, !.deleted_by = user]

DeletePasswordEffectKeepsLogs(user, pid, permanent) ==
    LET o == DeletePasswordOutcome(user, pid, permanent)
    IN  /\ IF o[1] = "ok" /\ permanent
           THEN /\ passwords' = Without(passwords, {pid})
                /\ history' = Without(history, {pid})
                /\ UNCHANGED <<access_logs, clock>>
           ELSE IF o[1] = "ok"
           THEN /\ passwords' = [passwords EXCEPT ![pid] = SoftDelete(@, user, clock)]
                /\ history' = [history EXCEPT
                                  ![pid] = Append(@, HistoryEntry("deleted", user, EmptyDict))]
                /\ clock' = clock + 1
                /\ UNCHANGED access_logs
           ELSE UNCHANGED <<passwords, history, access_logs, clock>>
        /\ UNCHANGED <<groups, usergroups, inflight>>
        /\ UNCHANGED directories

DeletePasswordEffectNoHistory(user, pid, permanent) ==
    LET o == DeletePasswordOutcome(user, pid, permanent)
    IN  /\ IF o[1] = "ok" /\ permanent
           THEN /\ passwords' = Without(passwords, {pid})
                /\ history' = Without(history, {pid})
                /\ access_logs' = Without(access_logs, {pid})
                /\ UNCHANGED clock
           ELSE IF o[1] = "ok"
           THEN /\ passwords' = [passwords EXCEPT ![pid] = SoftDelete(@, user, clock)]
                /\ clock' = clock + 1
                /\ UNCHANGED <<history, access_logs>>
           ELSE UNCHANGED <<passwords, history, access_logs, clock>>
        /\ UNCHANGED <<groups, usergroups, inflight>>
        /\ UNCHANGED directories

DeletePasswordEffect(user, pid, permanent) ==
    LET o == DeletePasswordOutcome(user, pid, permanent)
    IN  /\ IF o[1] = "ok" /\ permanent
           THEN /\ passwords' = Without(passwords, {pid})
                /\ history' = Without(history, {pid})
                /\ access_logs' = Without(access_logs, {pid})
                /\ UNCHANGED clock
           ELSE IF o[1] = "ok"
           THEN /\ passwords' = [passwords EXCEPT ![pid] = SoftDelete(@, user, clock)]
                /\ history' = [history EXCEPT
                                  ![pid] = Append(@, HistoryEntry("deleted", user, EmptyDict))]
                /\ clock' = clock + 1
                /\ UNCHANGED access_logs
           ELSE UNCHANGED <<passwords, history, access_logs, clock>>
        /\ UNCHANGED <<groups, usergroups, inflight>>
        /\ UNCHANGED directories

DeletePassword(user, pid, permanent) ==
    /\ DeletePasswordEffect(user, pid, permanent)
    /\ result' = Reply("delete_password", user, pid, DeletePasswordOutcome(user, pid, permanent)[1], DeletePasswordOutcome(user, pid, permanent)[2], {})

(***************************************************************************)
(* PasswordAdmin: the soft_delete_passwords and restore_passwords actions, *)
(* applied to one selected row.                                            *)
(***************************************************************************)
RestoreKeepsDeleter(pw) == [pw EXCEPT !.is_deleted = FALSE, !.deleted_at = NoTime]

\* Password.restore()
Restore(pw) ==
    [pw EXCEPT !.is_deleted = FALSE, !.deleted_at = NoTime, !.deleted_by = NoUser]

\* soft_delete_passwords: password.soft_delete(request.user) on a row not yet
\* deleted; no history row is written
AdminSoftDeleteEffect(user, pid) ==
    /\ pid \in AllIds
    /\ IF ~passwords[pid].is_deleted
       THEN /\ passwords' = [passwords EXCEPT ![pid] = SoftDelete(@, user, clock)]
            /\ clock' = clock + 1
       ELSE UNCHANGED <<passwords, clock>>
    /\ UNCHANGED <<groups, usergroups, history, access_logs, inflight>>
    /\ UNCHANGED directories

AdminSoftDelete(user, pid) ==
    /\ AdminSoftDeleteEffect(user, pid)
    /\ result' = Reply("admin_soft_delete", user, pid, "ok", "", {})

\* restore_passwords: password.restore() on a deleted row
AdminRestoreEffect(user, pid) ==
    /\ pid \in AllIds
    /\ passwords' = IF passwords[pid].is_deleted
                    THEN [passwords EXCEPT ![pid] = Restore(@)]
                    ELSE passwords
    /\ UNCHANGED <<groups, usergroups, history, access_logs, clock, inflight>>
    /\ UNCHANGED directories

AdminRestore(user, pid) ==
    /\ AdminRestoreEffect(user, pid)
    /\ result' = Reply("admin_restore", user, pid, "ok", "", {})

(***************************************************************************)
(* PasswordService.search_passwords / get_user_passwords                   *)
(***************************************************************************)
RECURSIVE JoinTags(_)
JoinTags(items) ==
    IF items = <<>> THEN <<>>
    ELSE <<"\"">> \o items[1].s \o <<"\"">>
         \o (IF Len(items) > 1 THEN <<",", " ">> ELSE <<>>) \o JoinTags(Tail(items))

\* the JSON text of the tags column, which tags__icontains searches
TagsJson(tags) == <<"[">> \o JoinTags(tags.items) \o <<"]">>

MatchesQuery(pw, query) ==
    \/ IContains(pw.title, query)
    \/ IContains(pw.username, query)
    \/ IContains(pw.url, query)
    \/ IContains(pw.notes, query)
    \/ IContains(TagsJson(pw.tags), query)

MatchesFilters(pw, filters) ==
    /\ "group_id" \in DOMAIN filters => pw.group = filters["group_id"]
    /\ "priority" \in DOMAIN filters => pw.priority = filters["priority"]
    /\ "is_favorite" \in DOMAIN filters => pw.is_favorite = filters["is_favorite"]
    /\ "tags" \in DOMAIN filters =>
           \A i \in DOMAIN filters["tags"] : IContains(TagsJson(pw.tags), filters["tags"][i])
    \* expires_at__lte=now+30 days, expires_at__isnull=False
    /\ ("expires_soon" \in DOMAIN filters /\ filters["expires_soon"]) =>
           (pw.expires_at # NoTime /\ pw.expires_at <= clock + ExpiresSoonDays)

SearchResult(user, query, filters) ==
    {p \in LiveIds :
        /\ passwords[p].group \in UserAccessibleGroups(user)
        /\ query # <<>> => MatchesQuery(passwords[p], query)
        /\ MatchesFilters(passwords[p], filters)}

SearchPasswordsEffect(user, query, filters) ==
    /\ UNCHANGED <<dbvars, clock, inflight>>
    /\ UNCHANGED directories

SearchPasswords(user, query, filters) ==
    /\ SearchPasswordsEffect(user, query, filters)
    /\ result' = Reply("search_passwords", user, "", "ok", "", SearchResult(user, query, filters))

\* group_id = "" stands for None
UserPasswords(user, group_id) ==
    {p \in LiveIds :
        passwords[p].group \in {g \in UserAccessibleGroups(user) :
                                   group_id # "" => g = group_id}}

GetUserPasswordsEffect(user, group_id) ==
    /\ UNCHANGED <<dbvars, clock, inflight>>
    /\ UNCHANGED directories

GetUserPasswords(user, group_id) ==
    /\ GetUserPasswordsEffect(user, group_id)
    /\ result' = Reply("get_user_passwords", user, group_id, "ok", "", UserPasswords(user, group_id))

\* ajax_toggle_favorite: get_password(record_access=False), then toggle_favorite()
ToggleFavoriteEffect(user, pid) ==
    LET o == GetPasswordOutcome(user, pid)
    IN  /\ passwords' = IF o[1] = "ok"
                        THEN [passwords EXCEPT ![pid].is_favorite = ~@]
                        ELSE passwords
        /\ UNCHANGED <<groups, usergroups, history, access_logs, clock, inflight>>
        /\ UNCHANGED directories

ToggleFavorite(user, pid) ==
    /\ ToggleFavoriteEffect(user, pid)
    /\ result' = Reply("toggle_favorite", user, pid, GetPasswordOutcome(user, pid)[1], GetPasswordOutcome(user, pid)[2], {})

(***************************************************************************)
(* Inputs.                                                                 *)
(***************************************************************************)
Secret1 == <<"S","t","r","0","n","g","P","@","s","s","w","0","r","d","!","X","1">>
Secret2 == <<"N","e","w","P","@","s","s","w","0","r","d","!","9","8","7">>
WeakSecret == <<"w","e","a","k">>

TagWork == [ty |-> "list", items |-> <<[ty |-> "str", s |-> <<"w","o","r","k">>]>>]
FieldPin == [ty |-> "dict",
             kv |-> <<[kty |-> "str", k |-> <<"p","i","n">>, vty |-> "str", v |-> <<"7">>]>>]

\* a first version of a record; the title arrives with blanks around it
PayloadA == [title |-> <<" ","a","b"," ">>, password |-> Secret1]
\* every field set, and a new secret
PayloadB == [title |-> <<"C","d">>, username |-> <<"m","e"," ">>, url |-> <<"h","t","t","p","s",":","/","/","a",".","i","o">>,
             notes |-> <<"n">>, priority |-> "high", custom_fields |-> FieldPin,
             tags |-> TagWork, password |-> Secret2]
\* a change of title only
PayloadC == [title |-> <<"e","f">>]
\* the secret the record was created with, sent again
PayloadSameSecret == [title |-> <<"a","b">>, password |-> Secret1]
\* rejected by PasswordValidator: the title is blank
PayloadBlank == [title |-> <<" ">>, password |-> Secret1]
\* rejected by PasswordStrengthValidator
PayloadWeak == [title |-> <<"a","b">>, password |-> WeakSecret]
\* passes the validator (a falsy priority is not checked) and fails full_clean()
PayloadNoPriority == [title |-> <<"a","b">>, priority |-> "", password |-> Secret1]


\* n copies of the character c
Rep(c, n) == [i \in 1..n |-> c]
UrlPrefix == <<"h", ":", "/", "/">>

\* payloads that create_password must turn down, one per kind of defect
PayloadLongTitle == [title |-> Rep("a", TitleMaxLen + 1), password |-> Secret1]
PayloadLongUsername == [title |-> <<"a","b">>, username |-> Rep("u", UsernameMaxLen + 1),
                        password |-> Secret1]
PayloadLongNotes == [title |-> <<"a","b">>, notes |-> Rep("n", NotesMaxLen + 1),
                     password |-> Secret1]
\* a URL longer than the validator allows
PayloadLongUrl == [title |-> <<"a","b">>, url |-> UrlPrefix \o Rep("a", UrlMaxLen - 3),
                   password |-> Secret1]
\* a URL that the validator allows and the url column (max_length 200) cannot hold
PayloadWideUrl == [title |-> <<"a","b">>, url |-> UrlPrefix \o Rep("a", UrlFieldMaxLen - 3),
                   password |-> Secret1]
PayloadTagsNotList == [title |-> <<"a","b">>, tags |-> [ty |-> "other", items |-> <<>>],
                       password |-> Secret1]
PayloadEmptyTag == [title |-> <<"a","b">>,
                    tags |-> [ty |-> "list", items |-> <<[ty |-> "str", s |-> <<" ">>]>>],
                    password |-> Secret1]
PayloadFieldsNotDict == [title |-> <<"a","b">>, custom_fields |-> [ty |-> "other", kv |-> <<>>],
                         password |-> Secret1]
PayloadFieldValueList == [title |-> <<"a","b">>,
                          custom_fields |-> [ty |-> "dict",
                              kv |-> <<[kty |-> "str", k |-> <<"k">>, vty |-> "list", v |-> <<>>]>>],
                          password |-> Secret1]
PayloadFieldValueLong == [title |-> <<"a","b">>,
                          custom_fields |-> [ty |-> "dict",
                              kv |-> <<[kty |-> "str", k |-> <<"k">>, vty |-> "str",
                                        v |-> Rep("v", FieldValueMaxLen + 1)]>>],
                          password |-> Secret1]
PayloadNoSecret == [title |-> <<"a","b">>]

\* the payloads of the specifications
Payloads ==
    {PayloadA, PayloadB, PayloadC, PayloadSameSecret, PayloadBlank, PayloadWeak,
     PayloadNoPriority, PayloadLongTitle, PayloadLongUsername, PayloadLongNotes,
     PayloadLongUrl, PayloadWideUrl, PayloadTagsNotList, PayloadEmptyTag,
     PayloadFieldsNotDict, PayloadFieldValueList, PayloadFieldValueLong, PayloadNoSecret}

\* each payload with each group id, computed once
GroupedPayloads == {d @@ [group_id |-> g] : d \in Payloads, g \in GroupIds}

\* the payload d with group_id = g; for a payload of the specifications this
\* is the member of GroupedPayloads, so that every call is handed the one
\* value computed there
WithGroup(d, g) ==
    LET x == d @@ [group_id |-> g]
    IN  IF x \in GroupedPayloads THEN CHOOSE y \in GroupedPayloads : y = x ELSE x

(***************************************************************************)
(* Spec: access control.  One group founded by u1, with or without its     *)
(* owner membership row; every user acts on memberships and on one record. *)
(* The reply of a call is a function of the state it is made in (the       *)
(* Outcome operators), so this specification leaves result alone.          *)
(***************************************************************************)
HistoryRoom(p, max) == p \in DOMAIN history => Len(history[p]) < max

Founders == {"u1"}
SpecGroups == {"g1"}
SpecPasswords == {"p1"}
SpecRoles == {"admin", "member"}
MemberIds == Users \X SpecGroups

Next ==
    \/ \E u \in Founders, g \in SpecGroups : CreateGroupEffect(u, g) /\ UNCHANGED result
    \/ \E u \in Founders, g \in SpecGroups : GroupObjectsCreateEffect(u, g) /\ UNCHANGED result
    \/ \E u \in Users, g \in SpecGroups, t \in Users, r \in SpecRoles :
          AddMemberEffect(u, g, t, r) /\ UNCHANGED result
    \/ \E u \in Users, g \in SpecGroups, m \in MemberIds :
          RemoveMemberEffect(u, g, m) /\ UNCHANGED result
    \/ \E u \in Users, g \in SpecGroups, m \in MemberIds, r \in SpecRoles :
          ChangeMemberRoleEffect(u, g, m, r) /\ UNCHANGED result
    \/ \E u \in Users, g \in SpecGroups : DeleteGroupEffect(u, g) /\ UNCHANGED result
    \/ \E u \in Users, p \in SpecPasswords, g \in SpecGroups :
          CreatePasswordEffect(u, p, WithGroup(PayloadA, g)) /\ UNCHANGED result
    \/ \E u \in Users, p \in SpecPasswords :
          clock < MaxClock /\ GetPasswordEffect(u, p, TRUE) /\ UNCHANGED result
    \/ \E u \in Users, p \in SpecPasswords :
          HistoryRoom(p, MaxHistory) /\ UpdatePasswordEffect(u, p, PayloadC) /\ UNCHANGED result
    \/ \E u \in Users, p \in SpecPasswords :
          HistoryRoom(p, MaxHistory) /\ clock < MaxClock
          /\ DeletePasswordEffect(u, p, FALSE) /\ UNCHANGED result
    \/ \E u \in Users, p \in SpecPasswords :
          DeletePasswordEffect(u, p, TRUE) /\ UNCHANGED result

Spec == Init /\ [][Next]_vars

(***************************************************************************)
(* Access-control properties.                                              *)
(***************************************************************************)
\* payloads a caller may send to update_password
UpdateInputs == {PayloadC, PayloadB, PayloadSameSecret, PayloadBlank, PayloadWeak}

\* user's only relation to group g is a MEMBER membership
OnlyMember(user, g) == groups[g].owner # user /\ RoleOf(user, g) = "member"

\* C1: a user whose only relation to a group is a MEMBER membership can create
\* records in it, can update and delete the records that user created, and gets
\* PermissionDenied from update_password and delete_password on a record of the
\* group that someone else created.
C1_MemberEditsOnlyOwn ==
    \A u \in Users, g \in DOMAIN groups :
        OnlyMember(u, g) =>
            /\ \A p \in PasswordIds \ DOMAIN passwords :
                   CreatePasswordOutcome(u, p, WithGroup(PayloadA, g))[1] = "ok"
            /\ \A p \in AllIds :
                   passwords[p].group = g =>
                       IF passwords[p].created_by = u
                       THEN /\ p \in LiveIds =>
                                  /\ UpdatePasswordOutcome(u, p, PayloadC)[1] = "ok"
                                  /\ DeletePasswordOutcome(u, p, FALSE)[1] = "ok"
                            /\ DeletePasswordOutcome(u, p, TRUE)[1] = "ok"
                       ELSE /\ p \in LiveIds =>
                                  /\ \A d \in UpdateInputs :
                                         UpdatePasswordOutcome(u, p, d)[1] = "PermissionDenied"
                                  /\ DeletePasswordOutcome(u, p, FALSE)[1] = "PermissionDenied"
                            /\ DeletePasswordOutcome(u, p, TRUE)[1] = "PermissionDenied"

\* a MEMBER has created and updated a record that another MEMBER may not touch
C1_Witness ==
    \E u \in Users, v \in Users, p \in LiveIds :
        /\ u # v
        /\ OnlyMember(u, passwords[p].group) /\ OnlyMember(v, passwords[p].group)
        /\ passwords[p].created_by = u
        /\ Len(history[p]) = 2
        /\ history[p][2].change_type = "updated" /\ history[p][2].changed_by = u
        /\ UpdatePasswordOutcome(v, p, PayloadC)[1] = "PermissionDenied"

\* user created pw, owns its group, or has a membership row in it
Related(user, pw) ==
    \/ pw.created_by = user
    \/ groups[pw.group].owner = user
    \/ \E m \in usergroups : m.user = user /\ m.group = pw.group

\* C2: for every principal and every non-deleted record, get_password succeeds
\* if and only if the principal created the record, owns its group or holds a
\* membership of any role in its group; otherwise it raises PermissionDenied.
C2_ViewIffRelated ==
    \A u \in Users, p \in LiveIds :
        IF Related(u, passwords[p])
        THEN GetPasswordOutcome(u, p)[1] = "ok"
        ELSE GetPasswordOutcome(u, p)[1] = "PermissionDenied"

\* a record that was read, whose creator has no membership left and still may
\* read it, and a stranger who is refused
C2_Witness ==
    \E u \in Users, v \in Users, p \in LiveIds :
        /\ passwords[p].created_by = u
        /\ groups[passwords[p].group].owner # u
        /\ ~HasMembership(u, passwords[p].group)
        /\ passwords[p].access_count > 0
        /\ GetPasswordOutcome(u, p)[1] = "ok"
        /\ GetPasswordOutcome(v, p)[1] = "PermissionDenied"

\* C4: the creator of a record can update and delete it whatever the creator's
\* current role in the record's group is, also after the membership was changed
\* to MEMBER or removed.
C4_CreatorKeepsRights ==
    \A p \in AllIds :
        LET creator == passwords[p].created_by
        IN  /\ p \in LiveIds =>
                  /\ UpdatePasswordOutcome(creator, p, PayloadC)[1] = "ok"
                  /\ UpdatePasswordOutcome(creator, p, PayloadB)[1] = "ok"
                  /\ \A d \in UpdateInputs :
                         UpdatePasswordOutcome(creator, p, d)[1] # "PermissionDenied"
                  /\ DeletePasswordOutcome(creator, p, FALSE)[1] = "ok"
            /\ DeletePasswordOutcome(creator, p, TRUE)[1] = "ok"

\* the creator, by now without a membership row, has updated the record
C4_Witness ==
    \E p \in LiveIds :
        LET creator == passwords[p].created_by
        IN  /\ groups[passwords[p].group].owner # creator
            /\ RoleOf(creator, passwords[p].group) = "none"
            /\ Len(history[p]) = 2
            /\ history[p][2].change_type = "updated"
            /\ history[p][2].changed_by = creator
            /\ DeletePasswordOutcome(creator, p, FALSE)[1] = "ok"

\* C5: the owner of a group can create records in it, view, update and delete
\* every record of it, and add, remove and re-role its members, also when no
\* membership row exists for the owner.
C5_OwnerFullRights ==
    \A g \in DOMAIN groups :
        LET owner == groups[g].owner
        IN  /\ GetGroupError(owner, g) = ""
            /\ \A p \in PasswordIds \ DOMAIN passwords :
                   CreatePasswordOutcome(owner, p, WithGroup(PayloadA, g))[1] = "ok"
            /\ \A p \in PasswordsOf(g) :
                   /\ p \in LiveIds =>
                          /\ GetPasswordOutcome(owner, p)[1] = "ok"
                          /\ UpdatePasswordOutcome(owner, p, PayloadC)[1] = "ok"
                          /\ DeletePasswordOutcome(owner, p, FALSE)[1] = "ok"
                   /\ DeletePasswordOutcome(owner, p, TRUE)[1] = "ok"
            /\ \A t \in Users \ {owner}, r \in SpecRoles :
                   IF HasMembership(t, g)
                   THEN /\ MemberChangeOutcome(owner, g, <<t, g>>)[1] = "ok"
                        /\ ChangeMemberRoleOutcome(owner, g, <<t, g>>, r)[1] = "ok"
                   ELSE AddMemberOutcome(owner, g, t, r)[1] = "ok"

\* an owner without a membership row has added a member and updated the record
\* that member created
C5_Witness ==
    \E g \in DOMAIN groups, p \in LiveIds :
        LET owner == groups[g].owner
        IN  /\ ~HasMembership(owner, g)
            /\ passwords[p].group = g
            /\ passwords[p].created_by # owner
            /\ HasMembership(passwords[p].created_by, g)
            /\ Len(history[p]) = 2
            /\ history[p][2].change_type = "updated"
            /\ history[p][2].changed_by = owner

\* C7: get_password by a principal without view rights on an existing record
\* has the same outcome as get_password with an identifier of no record.
C7_DeniedLooksLikeAbsent ==
    \A u \in Users, p \in LiveIds, q \in PasswordIds \ AllIds :
        ~CanUserViewPassword(u, passwords[p]) =>
            GetPasswordOutcome(u, p)[1] = GetPasswordOutcome(u, q)[1]

(***************************************************************************)
(* SpecAudit: record operations with their replies.  u1 founds the group   *)
(* and may admit u2 as MEMBER; u3 stays a stranger.  Every user sends      *)
(* valid and invalid calls for one record, and result holds the reply of   *)
(* the last call.                                                          *)
(***************************************************************************)
CreateInputs == {PayloadA, PayloadBlank}

\* the bounds stop calls that would succeed; a failing call is always possible
ClockRoom(ok) == ok => clock < MaxClock

AuditRoom(p, ok) == ok => HistoryRoom(p, MaxHistory)

NextAudit ==
    \/ \E u \in Founders, g \in SpecGroups : CreateGroup(u, g)
    \/ \E u \in Founders, g \in SpecGroups : AddMember(u, g, "u2", "member")
    \/ \E u \in Users, p \in SpecPasswords, g \in SpecGroups, d \in CreateInputs :
          CreatePassword(u, p, WithGroup(d, g))
    \/ \E u \in Users, p \in SpecPasswords, ra \in BOOLEAN :
          /\ ClockRoom(ra /\ GetPasswordOutcome(u, p)[1] = "ok")
          /\ GetPassword(u, p, ra)
    \/ \E u \in Users, p \in SpecPasswords, d \in UpdateInputs :
          /\ AuditRoom(p, UpdatePasswordOutcome(u, p, d)[1] = "ok")
          /\ UpdatePassword(u, p, d)
    \/ \E u \in Users, p \in SpecPasswords, permanent \in BOOLEAN :
          /\ AuditRoom(p, ~permanent /\ DeletePasswordOutcome(u, p, permanent)[1] = "ok")
          /\ ClockRoom(~permanent /\ DeletePasswordOutcome(u, p, permanent)[1] = "ok")
          /\ DeletePassword(u, p, permanent)

SpecAudit == Init /\ [][NextAudit]_vars

(***************************************************************************)
(* Audit properties.                                                       *)
(***************************************************************************)
RecordOps == {"get_password", "update_password", "delete_password"}

\* C3: a get_password, update_password or delete_password call that fails the
\* permission check raises PermissionDenied and leaves the record's fields, its
\* access counters, its access-log rows, its tombstone and its history as they
\* were before the call.
C3_DeniedCallChangesNothing ==
    [][(result'.op \in RecordOps /\ result'.kind = "PermissionDenied")
          => UNCHANGED <<dbvars, clock>>]_vars

\* a call was refused on a record that has been read and updated before
C3_Witness ==
    /\ result.op \in RecordOps
    /\ result.kind = "PermissionDenied"
    /\ result.target \in LiveIds
    /\ passwords[result.target].access_count > 0
    /\ Len(access_logs[result.target]) > 0
    /\ Len(history[result.target]) > 1

\* the seven fields update_password snapshots, read from a stored row
StoredFields(pw) ==
    [title |-> pw.title, username |-> pw.username, url |-> pw.url, notes |-> pw.notes,
     priority |-> pw.priority, custom_fields |-> pw.custom_fields, tags |-> pw.tags]

\* C8: every successful update_password appends exactly one history entry to
\* the record, whose previous_values are the title, username, url, notes,
\* priority, custom_fields and tags stored just before the update.
C8_UpdateAppendsSnapshot ==
    [][(result'.op = "update_password" /\ result'.kind = "ok") =>
          LET p == result'.target
              n == Len(history[p])
          IN  /\ p \in DOMAIN history /\ p \in DOMAIN history'
              /\ Len(history'[p]) = n + 1
              /\ SubSeq(history'[p], 1, n) = history[p]
              /\ history'[p][n + 1].previous_values = StoredFields(passwords[p])
              /\ history'[p][n + 1].change_type \in {"updated", "password_changed"}
              /\ \A q \in DOMAIN history' \ {p} : q \in DOMAIN history /\ history'[q] = history[q]
      ]_vars

\* the last call was an update that changed title, username, url, notes,
\* priority, custom fields and tags, and the entry holds the old values
C8_Witness ==
    /\ result.op = "update_password" /\ result.kind = "ok"
    /\ LET p == result.target
           prev == history[p][Len(history[p])].previous_values
       IN  /\ prev.title # passwords[p].title
           /\ prev.username # passwords[p].username
           /\ prev.url # passwords[p].url
           /\ prev.notes # passwords[p].notes
           /\ prev.priority # passwords[p].priority
           /\ prev.custom_fields # passwords[p].custom_fields
           /\ prev.tags # passwords[p].tags

MutatingOps == {"create_password", "update_password", "delete_password"}

\* a row without its access counters
Content(pw) == [pw EXCEPT !.last_accessed = NoTime, !.access_count = 0]

\* the change types a successful call of op writes
ChangeTypesOf(op) ==
    IF op = "create_password" THEN {"created"}
    ELSE IF op = "update_password" THEN {"updated", "password_changed"}
    ELSE IF op = "delete_password" THEN {"deleted"}
    ELSE {}

\* C9: for every record that exists, each successful create_password,
\* update_password and soft delete_password adds exactly one history entry of
\* its change type, a failed call adds no entry and changes no record, the
\* record changes only together with a new entry, and entries written earlier
\* are neither modified nor removed.
C9_HistoryFollowsMutations ==
    [][/\ \A p \in DOMAIN passwords' :
             LET old == IF p \in DOMAIN history THEN history[p] ELSE <<>>
                 new == history'[p]
                 mutated == /\ result'.op \in MutatingOps
                            /\ result'.kind = "ok"
                            /\ result'.target = p
             IN  /\ Len(new) >= Len(old)
                 /\ SubSeq(new, 1, Len(old)) = old
                 /\ Len(new) = Len(old) + (IF mutated THEN 1 ELSE 0)
                 /\ mutated =>
                        /\ new[Len(new)].change_type \in ChangeTypesOf(result'.op)
                        /\ new[Len(new)].changed_by = result'.user
                 /\ (p \in DOMAIN passwords => 
                        (Content(passwords'[p]) # Content(passwords[p]) => mutated))
                 /\ (p \notin DOMAIN passwords => mutated /\ result'.op = "create_password")
       /\ (result'.op \in MutatingOps /\ result'.kind # "ok") => UNCHANGED <<dbvars, clock>>
      ]_vars

\* a record with a CREATED and an UPDATED entry, after a call that failed
C9_Witness ==
    /\ result.op = "update_password"
    /\ result.kind = "ValidationError"
    /\ result.target \in LiveIds
    /\ Len(history[result.target]) = 2
    /\ history[result.target][1].change_type = "created"
    /\ history[result.target][2].change_type \in {"updated", "password_changed"}

(***************************************************************************)
(* SpecSearch: two groups of two founders, u2 joining and leaving g1, two  *)
(* records, soft deletion and favourites; every user lists and searches.   *)
(***************************************************************************)
FounderOf == [g1 |-> "u1", g2 |-> "u2"]

\* the payload each record is created from
PayloadOf == [p1 |-> PayloadA, p2 |-> PayloadB]

Queries == {<<>>, <<"A", "B">>, <<"W", "o", "r", "k">>, <<"z">>}

AllFilters == [group_id |-> "g1", priority |-> "high", is_favorite |-> TRUE,
               tags |-> <<<<"w", "o">>>>, expires_soon |-> FALSE]

SearchFilters ==
    {<<>>, [group_id |-> "g1"], [group_id |-> "g2"], [priority |-> "high"],
     [is_favorite |-> TRUE], [tags |-> <<<<"w", "o">>>>], [expires_soon |-> TRUE],
     AllFilters}

NextSearch ==
    \/ \E g \in GroupIds : CreateGroup(FounderOf[g], g)
    \/ AddMember("u1", "g1", "u2", "member")
    \/ RemoveMember("u1", "g1", <<"u2", "g1">>)
    \/ \E u \in {"u1", "u2"}, p \in PasswordIds, g \in GroupIds :
          CreatePassword(u, p, WithGroup(PayloadOf[p], g))
    \/ \E u \in {"u1", "u2"}, p \in PasswordIds :
          /\ ClockRoom(DeletePasswordOutcome(u, p, FALSE)[1] = "ok")
          /\ DeletePassword(u, p, FALSE)
    \/ \E u \in {"u1", "u2"}, p \in PasswordIds : ToggleFavorite(u, p)
    \/ \E u \in Users, q \in Queries, f \in SearchFilters : SearchPasswords(u, q, f)
    \/ \E u \in Users, g \in GroupIds \cup {""} : GetUserPasswords(u, g)

SpecSearch == Init /\ [][NextSearch]_vars

ListingOps == {"search_passwords", "get_user_passwords"}

\* p is a live record of a group user owns or is a member of, one that
\* get_password would return to user
Listable(user, p) ==
    /\ p \in DOMAIN passwords
    /\ ~passwords[p].is_deleted
    /\ \/ groups[passwords[p].group].owner = user
       \/ \E m \in usergroups : m.user = user /\ m.group = passwords[p].group
    /\ GetPasswordOutcome(user, p)[1] = "ok"

\* C6: search_passwords and get_user_passwords return, for every query and
\* every combination of filters, only records that are not soft-deleted, belong
\* to a group the caller owns or is a member of, and that the caller could view
\* with get_password.
C6_ListingsOnlyViewable ==
    /\ result.op \in ListingOps => \A p \in result.rows : Listable(result.user, p)
    /\ \A u \in Users :
          /\ \A q \in Queries, f \in SearchFilters :
                 \A p \in SearchResult(u, q, f) : Listable(u, p)
          /\ \A g \in GroupIds \cup {""} :
                 \A p \in UserPasswords(u, g) : Listable(u, p)

\* a search returned one record and left out the other one, which is
\* soft-deleted or in a group the caller has no access to
C6_Witness ==
    /\ result.op = "search_passwords"
    /\ \E p \in PasswordIds, q \in DOMAIN passwords :
          /\ result.rows = {p}
          /\ p # q
          /\ \/ passwords[q].is_deleted
             \/ passwords[q].group \notin UserAccessibleGroups(result.user)

(***************************************************************************)
(* SpecConc: get_password run by concurrent requests.  get_password opens  *)
(* no transaction, so under autocommit each of its statements commits on   *)
(* its own and other requests run between them:                            *)
(*   load   Password.objects.get and the permission check                  *)
(*   save   record_access: last_accessed and access_count + 1, computed on *)
(*          the instance loaded earlier, written with save(update_fields)  *)
(*   log    PasswordAccessLog.objects.create                               *)
(***************************************************************************)
Busy == {r \in Requests : inflight[r].pc # "idle"}

\* Password.objects.get(id=...) and _can_user_view_password
GetPasswordLoad(r, user, pid, record_access) ==
    LET o == GetPasswordOutcome(user, pid)
    IN  /\ inflight[r].pc = "idle"
        /\ IF o[1] = "ok" /\ record_access
           THEN /\ inflight' = [inflight EXCEPT
                                   ![r] = [pc |-> "loaded", user |-> user, pid |-> pid,
                                           instance |-> passwords[pid]]]
                /\ UNCHANGED result
           ELSE /\ result' = Reply("get_password", user, pid, o[1], o[2], {})
                /\ UNCHANGED inflight
        /\ UNCHANGED <<dbvars, clock>>
        /\ UNCHANGED directories

\* self.save(update_fields=['last_accessed', 'access_count']); a row deleted in
\* the meantime makes save raise, which get_password turns into ServiceError
GetPasswordSave(r) ==
    LET req == inflight[r]
    IN  /\ req.pc = "loaded"
        /\ IF req.pid \in AllIds
           THEN /\ passwords' = RecordAccessSave(req.pid, req.instance, clock)
                /\ clock' = clock + 1
                /\ inflight' = [inflight EXCEPT
                                   ![r] = [pc |-> "saved", user |-> req.user, pid |-> req.pid,
                                           at |-> clock]]
                /\ UNCHANGED result
           ELSE /\ result' = Reply("get_password", req.user, req.pid,
                                   "ServiceError", "Failed to retrieve password", {})
                /\ inflight' = [inflight EXCEPT ![r] = Idle]
                /\ UNCHANGED <<passwords, clock>>
        /\ UNCHANGED <<groups, usergroups, history, access_logs>>
        /\ UNCHANGED directories

\* PasswordAccessLog.objects.create(password=self, user=user, accessed_at=...)
GetPasswordLog(r) ==
    LET req == inflight[r]
    IN  /\ req.pc = "saved"
        /\ IF req.pid \in AllIds
           THEN /\ access_logs' = [access_logs EXCEPT
                                      ![req.pid] = Append(@, AccessLogEntry(req.user, req.at))]
                /\ result' = Reply("get_password", req.user, req.pid, "ok", "", {})
           ELSE /\ result' = Reply("get_password", req.user, req.pid,
                                   "ServiceError", "Failed to retrieve password", {})
                /\ UNCHANGED access_logs
        /\ inflight' = [inflight EXCEPT ![r] = Idle]
        /\ UNCHANGED <<groups, usergroups, passwords, history, clock>>
        /\ UNCHANGED directories

NextConc ==
    \/ \E u \in Founders, g \in SpecGroups : CreateGroup(u, g)
    \/ \E u \in Founders, g \in SpecGroups : AddMember(u, g, "u2", "member")
    \/ \E u \in Founders, p \in SpecPasswords, g \in SpecGroups :
          CreatePassword(u, p, WithGroup(PayloadA, g))
    \/ \E r \in Requests, u \in Users, p \in SpecPasswords, ra \in BOOLEAN :
          /\ (ra /\ GetPasswordOutcome(u, p)[1] = "ok") => clock + Cardinality(Busy) < MaxGets
          /\ GetPasswordLoad(r, u, p, ra)
    \/ \E r \in Requests : GetPasswordSave(r)
    \/ \E r \in Requests : GetPasswordLog(r)
    \/ \E u \in Founders, p \in SpecPasswords : DeletePassword(u, p, TRUE)

SpecConc == Init /\ [][NextConc]_vars

\* C10: each successful get_password with record_access=True appends one
\* access-log row and adds one to access_count as one atomic step, so that,
\* also when reads of one record by different requests interleave, access_count
\* equals the number of access-log rows of the record once the reads are done.
C10_CountEqualsLogRows ==
    Busy = {} =>
        \A p \in DOMAIN passwords : passwords[p].access_count = Len(access_logs[p])

(***************************************************************************)
(* Change kinds, deletion and restore.                                     *)
(***************************************************************************)
\* C11: a successful update_password records PASSWORD_CHANGED exactly when the
\* secret decrypted after the update differs from the secret decrypted before
\* it, and UPDATED in every other successful update.
C11_PasswordChangedIffSecretDiffers ==
    [][(result'.op = "update_password" /\ result'.kind = "ok") =>
          LET p == result'.target
              entry == history'[p][Len(history'[p])]
              differs == DecryptPassword(p, passwords'[p]) # DecryptPassword(p, passwords[p])
          IN  /\ entry.change_type = (IF differs THEN "password_changed" ELSE "updated")
      ]_vars

NotFound == <<"ServiceError", "Password not found">>

\* C12: after a successful delete_password(permanent=False) on a record,
\* get_password on it fails with the not-found error for every principal, the
\* creator and the group owner included, exactly as for an identifier of no
\* record, while Password.all_objects still holds the row with is_deleted set.
C12_SoftDeletedIsNotFound ==
    [][/\ \A p \in LiveIds :
             (\E u \in Users : /\ DeletePasswordOutcome(u, p, FALSE)[1] = "ok"
                               /\ DeletePassword(u, p, FALSE))
                 => /\ p \in AllIds'
                    /\ p \notin LiveIds'
                    /\ passwords'[p].is_deleted
       /\ \A p \in AllIds' :
             passwords'[p].is_deleted =>
                 \A u \in Users :
                     /\ GetPasswordOutcome(u, p)' = NotFound
                     /\ \A q \in PasswordIds \ AllIds' :
                            GetPasswordOutcome(u, q)' = GetPasswordOutcome(u, p)'
      ]_vars

\* the creator, who owns the group, read a soft-deleted record and got not-found
C12_Witness ==
    /\ result.op = "get_password"
    /\ result.kind = "ServiceError"
    /\ result.target \in AllIds
    /\ passwords[result.target].is_deleted
    /\ passwords[result.target].created_by = result.user
    /\ groups[passwords[result.target].group].owner = result.user

\* C13: delete_password with permanent=False keeps the record's row and
\* appends exactly one DELETED history entry attributed to the caller;
\* delete_password with permanent=True, on a live or on a soft-deleted record,
\* removes the record with all its history entries and access-log rows and
\* appends no history entry.
C13_SoftKeepsHardCascades ==
    [][\A u \in Users, p \in AllIds :
          /\ (DeletePasswordOutcome(u, p, FALSE)[1] = "ok" /\ DeletePassword(u, p, FALSE))
                => /\ p \in DOMAIN passwords'
                   /\ history'[p] = Append(history[p], [change_type |-> "deleted",
                                                        changed_by |-> u,
                                                        previous_values |-> EmptyDict])
                   /\ access_logs'[p] = access_logs[p]
          /\ (DeletePasswordOutcome(u, p, TRUE)[1] = "ok" /\ DeletePassword(u, p, TRUE))
                => /\ p \notin DOMAIN passwords'
                   /\ p \notin DOMAIN history'
                   /\ p \notin DOMAIN access_logs'
                   /\ \A q \in DOMAIN history' : q \in DOMAIN history /\ history'[q] = history[q]
      ]_vars

\* a record that had been read or soft-deleted was removed for good, and its
\* history and access log went with it
C13_Witness ==
    /\ result.op = "delete_password"
    /\ result.kind = "ok"
    /\ clock > 0
    /\ result.target \notin DOMAIN passwords
    /\ result.target \notin DOMAIN history
    /\ result.target \notin DOMAIN access_logs

(***************************************************************************)
(* SpecTrash: one record that is read, updated, soft-deleted through the   *)
(* service or the admin action, and restored by the admin action.          *)
(***************************************************************************)
Admins == {"u3"}

NextTrash ==
    \/ \E u \in Founders, g \in SpecGroups : CreateGroup(u, g)
    \/ \E u \in Founders, p \in SpecPasswords, g \in SpecGroups :
          CreatePassword(u, p, WithGroup(PayloadA, g))
    \/ \E u \in Users, p \in SpecPasswords, ra \in BOOLEAN :
          /\ ClockRoom(ra /\ GetPasswordOutcome(u, p)[1] = "ok")
          /\ GetPassword(u, p, ra)
    \/ \E u \in Founders, p \in SpecPasswords, d \in {PayloadB, PayloadC} :
          /\ AuditRoom(p, UpdatePasswordOutcome(u, p, d)[1] = "ok")
          /\ UpdatePassword(u, p, d)
    \/ \E u \in Users, p \in SpecPasswords :
          /\ AuditRoom(p, DeletePasswordOutcome(u, p, FALSE)[1] = "ok")
          /\ ClockRoom(DeletePasswordOutcome(u, p, FALSE)[1] = "ok")
          /\ DeletePassword(u, p, FALSE)
    \/ \E u \in Admins, p \in SpecPasswords :
          /\ ClockRoom(p \in LiveIds)
          /\ AdminSoftDelete(u, p)
    \/ \E u \in Admins, p \in SpecPasswords : AdminRestore(u, p)
    \/ \E u \in Founders, p \in SpecPasswords : ToggleFavorite(u, p)

SpecTrash == Init /\ [][NextTrash]_vars

\* C14: Password.soft_delete(user) sets is_deleted, deleted_at and deleted_by =
\* user and keeps the row; Password.restore clears all three; soft_delete
\* followed by restore gives back a row equal in every field to the one before
\* the soft delete, which the default manager lists and get_password returns.
C14_SoftDeleteRestoreRoundTrip ==
    [][\A p \in AllIds :
          LET deleted_now == ~passwords[p].is_deleted /\ p \in AllIds' /\ passwords'[p].is_deleted
              restored_now == passwords[p].is_deleted /\ p \in AllIds' /\ ~passwords'[p].is_deleted
          IN  /\ deleted_now =>
                     /\ passwords'[p] = [passwords[p] EXCEPT !.is_deleted = TRUE,
                                                             !.deleted_at = clock,
                                                             !.deleted_by = result'.user]
                     /\ passwords'[p].deleted_at # NoTime
                     /\ p \notin LiveIds'
              /\ restored_now =>
                     /\ passwords'[p] = [passwords[p] EXCEPT !.is_deleted = FALSE,
                                                             !.deleted_at = NoTime,
                                                             !.deleted_by = NoUser]
                     /\ p \in LiveIds'
                     /\ \A u \in Users :
                            u = passwords[p].created_by =>
                                /\ p \in UserPasswords(u, "")'
                                /\ GetPasswordOutcome(u, p)'[1] = "ok"
              /\ p \in LiveIds =>
                     \A u \in Users : Restore(SoftDelete(passwords[p], u, clock)) = passwords[p]
      ]_vars

\* a record that was updated and read, then soft-deleted by the service, is
\* live again after the restore
C14_Witness ==
    /\ result.op = "admin_restore"
    /\ result.target \in LiveIds
    /\ Len(history[result.target]) > 1
    /\ history[result.target][Len(history[result.target])].change_type = "deleted"
    /\ passwords[result.target].deleted_by = NoUser
    /\ passwords[result.target].deleted_at = NoTime

(***************************************************************************)
(* SpecCreate: create_password called by the owner, a member and a         *)
(* stranger with well-formed and malformed payloads, with and without a    *)
(* group id.                                                               *)
(***************************************************************************)
MalformedInputs ==
    {PayloadBlank, PayloadLongTitle, PayloadLongUsername, PayloadLongNotes, PayloadLongUrl,
     PayloadWideUrl, PayloadTagsNotList, PayloadEmptyTag, PayloadFieldsNotDict,
     PayloadFieldValueList, PayloadFieldValueLong, PayloadNoSecret, PayloadWeak}

\* every payload with no group id, with the group of the specification, and
\* with a group that does not exist
CreateCases ==
    {PayloadA, PayloadB} \cup MalformedInputs
    \cup {WithGroup(d, g) : d \in {PayloadA, PayloadB} \cup MalformedInputs, g \in GroupIds}

NextCreate ==
    \/ \E u \in Founders, g \in SpecGroups : CreateGroup(u, g)
    \/ \E u \in Founders, g \in SpecGroups : AddMember(u, g, "u2", "member")
    \/ \E u \in Users, p \in PasswordIds, d \in CreateCases : CreatePassword(u, p, d)

SpecCreate == Init /\ [][NextCreate]_vars

\* the defects the contract lists, with the lengths the validator and the
\* columns of the record allow
Malformed(d) ==
    \/ Strip(Get(d, "title", <<>>)) = <<>>
    \/ Len(Strip(Get(d, "title", <<>>))) > TitleMaxLen
    \/ Len(Strip(Get(d, "username", <<>>))) > UsernameMaxLen
    \/ Len(Strip(Get(d, "url", <<>>))) > UrlFieldMaxLen
    \/ Len(Strip(Get(d, "notes", <<>>))) > NotesMaxLen
    \/ TagsErrors(d) # {}
    \/ CustomFieldsErrors(d) # {}
    \/ Get(d, "password", <<>>) = <<>>
    \/ ~PasswordStrengthValidator(Get(d, "password", <<>>))
    \/ Get(d, "group_id", "") \notin DOMAIN groups

NameShared == <<"t","e","a","m">>
GroupInputs ==
    {[name |-> NameShared],
     [name |-> <<" ">>],
     [name |-> Rep("n", GroupNameMaxLen + 1)],
     [description |-> <<"d">>]}

GroupOwners == {"u1", "u2"}
GroupRoles == {"owner", "admin", "member"}

NextGroup ==
    \/ \E u \in GroupOwners, g \in GroupIds, d \in GroupInputs :
          CreateGroupWithEffect(u, g, d) /\ UNCHANGED result
    \/ \E u \in GroupOwners, g \in GroupIds :
          CreateDefaultPersonalGroupEffect(u, g) /\ UNCHANGED result
    \/ \E u \in Users, g \in GroupIds, d \in GroupInputs :
          UpdateGroupEffect(u, g, d) /\ UNCHANGED result
    \/ \E u \in Users, g \in GroupIds, t \in Users, r \in GroupRoles :
          AddMemberEffect(u, g, t, r) /\ UNCHANGED result
    \/ \E u \in Users, g \in GroupIds, t \in Users :
          RemoveMemberEffect(u, g, <<t, g>>) /\ UNCHANGED result
    \/ \E u \in Users, g \in GroupIds, t \in Users, r \in GroupRoles :
          ChangeMemberRoleEffect(u, g, <<t, g>>, r) /\ UNCHANGED result
    \/ \E u \in Users, g \in GroupIds : DeleteGroupEffect(u, g) /\ UNCHANGED result

SpecGroup == Init /\ [][NextGroup]_vars

\* the OWNER memberships of group g
OwnerRows(g) == {m \in usergroups : m.group = g /\ m.role = "owner"}

\* C16: in every state reached through GroupService operations each group has
\* exactly one OWNER membership, held by the group's owner; no add_member or
\* change_member_role call gives OWNER to another user, and no call removes or
\* re-roles the owner's membership.
C16_OneOwnerMembership ==
    [][/\ \A g \in DOMAIN groups' :
             OwnerRows(g)' = {[user |-> groups'[g].owner, group |-> g, role |-> "owner"]}
       /\ \A g \in DOMAIN groups \cap DOMAIN groups', m \in usergroups' \ usergroups :
             m.group = g => m.user # groups[g].owner /\ m.role # "owner"
       /\ \A g \in DOMAIN groups \cap DOMAIN groups', m \in usergroups \ usergroups' :
             m.group = g => m.user # groups[g].owner
      ]_vars

\* an admin asked for the OWNER role for another user and was turned down
C16_Witness ==
    \E g \in DOMAIN groups, h \in DOMAIN groups, u \in Users, t \in Users :
        /\ RoleOf(u, g) = "admin" /\ RoleOf(t, g) = "member"
        /\ ChangeMemberRoleOutcome(u, g, <<t, g>>, "owner")
               = <<"ServiceError", "Failed to change member role">>
        /\ MemberChangeOutcome(u, g, <<groups[g].owner, g>>)[1] = "ServiceError"
        /\ RoleOf(u, h) = "admin" /\ ~HasMembership(t, h) /\ groups[h].owner # t
        /\ AddMemberOutcome(u, h, t, "owner") = <<"ServiceError", "Failed to add member">>

(***************************************************************************)
(* SpecGroupCalls: the GroupService operations with their replies.  u1     *)
(* founds g1 with create_group and g2 with create_default_personal_group;  *)
(* every user calls the member operations, update_group and delete_group.  *)
(***************************************************************************)
CallInputs == {[name |-> NameShared], [name |-> <<" ">>]}
Invitees == {"u2", "u3"}

NextGroupCalls ==
    \/ \E u \in Founders, d \in CallInputs : CreateGroupWith(u, "g1", d)
    \/ \E u \in Founders : CreateDefaultPersonalGroup(u, "g2")
    \/ \E u \in Users, g \in GroupIds, d \in CallInputs : UpdateGroup(u, g, d)
    \/ \E u \in Users, g \in GroupIds, t \in Invitees, r \in GroupRoles : AddMember(u, g, t, r)
    \/ \E u \in Users, g \in GroupIds, t \in Users : RemoveMember(u, g, <<t, g>>)
    \/ \E u \in Users, g \in GroupIds, t \in Users, r \in GroupRoles :
          ChangeMemberRole(u, g, <<t, g>>, r)
    \/ \E u \in Users, g \in GroupIds : DeleteGroup(u, g)
    \/ \E u \in Founders, p \in SpecPasswords, g \in GroupIds :
          CreatePassword(u, p, WithGroup(PayloadA, g))

SpecGroupCalls == Init /\ [][NextGroupCalls]_vars

MemberOps == {"add_member", "remove_member", "change_member_role"}

\* the caller is the owner of g or holds an ADMIN membership in it
OwnerOrAdmin(user, g) == groups[g].owner = user \/ RoleOf(user, g) = "admin"

\* C17: add_member, remove_member and change_member_role succeed only for the
\* group's owner or a holder of an ADMIN membership; a call by a MEMBER or by a
\* non-member fails with an error and leaves the memberships and their roles
\* as they were.
C17_OnlyOwnerOrAdminManageMembers ==
    [][result'.op \in MemberOps =>
          LET u == result'.user
              g == result'.target
          IN  /\ result'.kind = "ok" => g \in DOMAIN groups /\ OwnerOrAdmin(u, g)
              /\ (g \in DOMAIN groups /\ ~OwnerOrAdmin(u, g)) =>
                     /\ result'.kind \in {"ServiceError", "ValidationError"}
                     /\ usergroups' = usergroups
      ]_vars

\* a MEMBER was turned down in a group that has an ADMIN besides the owner
C17_Witness ==
    /\ result.op \in MemberOps
    /\ result.kind = "ServiceError"
    /\ result.msg = "cannot manage members"
    /\ RoleOf(result.user, result.target) = "member"
    /\ \E a \in Users : RoleOf(a, result.target) = "admin"

\* C18: delete_group succeeds only for the owner of a group that is not
\* personal; any other call fails with an error and leaves the group, its
\* memberships and its records as they were; no GroupService call removes a
\* personal group.
C18_OnlyOwnerDeletesNonPersonal ==
    [][/\ result'.op = "delete_group" =>
             LET u == result'.user
                 g == result'.target
             IN  /\ result'.kind = "ok" =>
                        /\ g \in DOMAIN groups /\ g \notin DOMAIN groups'
                        /\ groups[g].owner = u /\ ~groups[g].is_personal
                 /\ (g \in DOMAIN groups /\ (groups[g].owner # u \/ groups[g].is_personal)) =>
                        /\ result'.kind = "ServiceError"
                        /\ UNCHANGED dbvars
       /\ \A g \in DOMAIN groups :
             groups[g].is_personal => g \in DOMAIN groups' /\ groups'[g].is_personal
      ]_vars

\* the owner was refused the deletion of the personal group, which holds a
\* record and a member
C18_Witness ==
    /\ result.op = "delete_group"
    /\ result.kind = "ServiceError"
    /\ result.msg = "personal group"
    /\ groups[result.target].owner = result.user
    /\ PasswordsOf(result.target) # {}
    /\ \E m \in usergroups : m.group = result.target /\ m.role = "admin"

\* the OWNER membership of user in group g
OwnerRow(user, g) == [user |-> user, group |-> g, role |-> "owner"]

\* C19: create_group persists the new group, with a non-empty master key,
\* together with the creator's OWNER membership, or persists neither: after a
\* completed call both are there, after a failed call nothing has changed.
C19_CreateGroupAllOrNothing ==
    [][result'.op = "create_group" =>
          LET u == result'.user
              g == result'.target
          IN  /\ result'.kind = "ok" =>
                     /\ g \notin DOMAIN groups /\ g \in DOMAIN groups'
                     /\ groups'[g].owner = u
                     /\ groups'[g].encryption_key # <<>>
                     /\ OwnerRow(u, g) \in usergroups'
              /\ result'.kind # "ok" => UNCHANGED <<groups, usergroups>>
              /\ (g \in DOMAIN groups' \ DOMAIN groups) <=> (OwnerRow(u, g) \in usergroups' \ usergroups)
      ]_vars

\* a second group of the same owner was created beside the personal group
C19_Witness ==
    /\ result.op = "create_group"
    /\ result.kind = "ok"
    /\ result.target \in DOMAIN groups
    /\ OwnerRow(result.user, result.target) \in usergroups
    /\ groups[result.target].encryption_key # <<>>
    /\ \E h \in DOMAIN groups : h # result.target /\ groups[h].owner = result.user

(***************************************************************************)
(* SpecKey: the operations on one record of SpecTrash, together with       *)
(* update_group and the member operations on the record's group.           *)
(***************************************************************************)
NextKey ==
    \/ NextTrash
    \/ \E u \in Founders, g \in SpecGroups, d \in CallInputs : CreateGroupWith(u, g, d)
    \/ \E u \in Users, g \in SpecGroups, d \in CallInputs : UpdateGroup(u, g, d)
    \/ \E u \in Founders, g \in SpecGroups, r \in SpecRoles : AddMember(u, g, "u2", r)
    \/ \E u \in Founders, g \in SpecGroups : RemoveMember(u, g, <<"u2", g>>)
    \/ \E u \in Founders, g \in SpecGroups, r \in SpecRoles :
          ChangeMemberRole(u, g, <<"u2", g>>, r)

SpecKey == Init /\ [][NextKey]_vars

\* C20: a group's master key is non-empty from its first save on, and no later
\* operation (update_group, the member operations, the record operations, any
\* further Group.save) changes it.
C20_MasterKeyNeverChanges ==
    [][/\ \A g \in DOMAIN groups' : groups'[g].encryption_key # <<>>
       /\ \A g \in DOMAIN groups \cap DOMAIN groups' :
             groups'[g].encryption_key = groups[g].encryption_key
      ]_vars

\* update_group renamed a group whose record had been changed before; the
\* record still decrypts under the group's key
C20_Witness ==
    /\ result.op = "update_group"
    /\ result.kind = "ok"
    /\ groups[result.target].name = NameShared
    /\ \E p \in PasswordsOf(result.target) :
          /\ DecryptPassword(p, passwords[p])[1] = "ok"
          /\ Len(history[p]) > 1

(***************************************************************************)
(* Directory model and DirectoryViewSet (create, partial_update, destroy). *)
(* A row is [name, parent, group, created_by]; parent is NoDir for a root. *)
(***************************************************************************)
DirIds == {"d1", "d2"}
NoDir == "none"

\* Directory.name: CharField(max_length=100)
DirNameMaxLen == 100

\* the unique constraint (group, parent, name); a NULL parent never conflicts
SiblingNameTaken(row, d) ==
    /\ row.parent # NoDir
    /\ \E e \in DOMAIN directories \ {d} :
          /\ directories[e].group = row.group
          /\ directories[e].parent = row.parent
          /\ directories[e].name = row.name

\* Directory.clean() for the row with primary key d
DirectoryClean(row, d) ==
    /\ Strip(row.name) # <<>>
    /\ Len(Strip(row.name)) <= DirNameMaxLen
    /\ row.parent # d
    /\ row.parent # NoDir => directories[row.parent].group = row.group

\* Directory.save(): full_clean() (fields, clean, constraints), then the write
DirectoryFullClean(row, d) ==
    /\ row.name # <<>> /\ Len(row.name) <= DirNameMaxLen
    /\ row.parent \in DOMAIN directories \cup {NoDir}
    /\ row.group \in DOMAIN groups
    /\ DirectoryClean(row, d)
    /\ ~SiblingNameTaken(row, d)

\* DirectoryViewSet.get_queryset
AccessibleDirectories(user) ==
    {d \in DOMAIN directories :
        directories[d].created_by = user \/ HasMembership(user, directories[d].group)}

\* the row a request writes: the fields sent, over those of the row at hand
DirectoryRow(base, data) ==
    [name |-> Strip(Get(data, "name", base.name)),
     parent |-> Get(data, "parent", base.parent),
     group |-> Get(data, "group", base.group),
     created_by |-> base.created_by]

\* DirectorySerializer.is_valid(), "" when the data passes
DirectorySerializerError(row, d) ==
    IF row.name = <<>> THEN "name may not be blank"
    ELSE IF Len(row.name) > DirNameMaxLen THEN "name too long"
    ELSE IF row.parent \notin DOMAIN directories \cup {NoDir} THEN "parent does not exist"
    ELSE IF row.group \notin DOMAIN groups THEN "group does not exist"
    ELSE IF SiblingNameTaken(row, d) THEN "fields must make a unique set"
    ELSE ""

\* [kind, msg] of POST: serializer, then perform_create -> Directory.save()
CreateDirectoryOutcome(user, d, data) ==
    LET row == DirectoryRow([name |-> <<>>, parent |-> NoDir, group |-> "", created_by |-> user],
                            data)
    IN  IF DirectorySerializerError(row, d) # ""
        THEN <<"BadRequest", DirectorySerializerError(row, d)>>
        ELSE IF ~DirectoryFullClean(row, d) THEN <<"ValidationError", "full_clean">>
        ELSE <<"ok", "">>

CreateDirectory(user, d, data) ==
    /\ d \notin DOMAIN directories
    /\ directories' =
          IF CreateDirectoryOutcome(user, d, data)[1] = "ok"
          THEN directories @@ (d :> DirectoryRow([name |-> <<>>, parent |-> NoDir, group |-> "",
                                                  created_by |-> user], data))
          ELSE directories
    /\ result' = Reply("create_directory", user, d, CreateDirectoryOutcome(user, d, data)[1],
                       CreateDirectoryOutcome(user, d, data)[2], {})
    /\ UNCHANGED <<groups, usergroups, passwords, history, access_logs, clock, inflight>>

\* [kind, msg] of PATCH: get_object, serializer, Directory.save()
UpdateDirectoryOutcome(user, d, data) ==
    IF d \notin AccessibleDirectories(user) THEN <<"NotFound", "">>
    ELSE IF DirectorySerializerError(DirectoryRow(directories[d], data), d) # ""
         THEN <<"BadRequest", DirectorySerializerError(DirectoryRow(directories[d], data), d)>>
    ELSE IF ~DirectoryFullClean(DirectoryRow(directories[d], data), d)
         THEN <<"ValidationError", "full_clean">>
    ELSE <<"ok", "">>

UpdateDirectory(user, d, data) ==
    /\ directories' =
          IF UpdateDirectoryOutcome(user, d, data)[1] = "ok"
          THEN [directories EXCEPT ![d] = DirectoryRow(@, data)]
          ELSE directories
    /\ result' = Reply("update_directory", user, d, UpdateDirectoryOutcome(user, d, data)[1],
                       UpdateDirectoryOutcome(user, d, data)[2], {})
    /\ UNCHANGED <<groups, usergroups, passwords, history, access_logs, clock, inflight>>

\* DELETE: get_object, then delete() with its cascade over subdirectories
DestroyDirectory(user, d) ==
    /\ directories' =
          IF d \in AccessibleDirectories(user)
          THEN Without(directories, CascadeFrom({d}, Cardinality(DOMAIN directories)))
          ELSE directories
    /\ result' = Reply("destroy_directory", user, d,
                       IF d \in AccessibleDirectories(user) THEN "ok" ELSE "NotFound", "", {})
    /\ UNCHANGED <<groups, usergroups, passwords, history, access_logs, clock, inflight>>

(***************************************************************************)
(* SpecDir: u1 owns g1 and u2 owns g2; the owner u1 and the stranger u3    *)
(* create, change and delete directories.                                  *)
(***************************************************************************)
DirName == <<"d","o","c","s">>
DirRenamed == <<"o","l","d">>
DirCallers == {"u1", "u3"}

CreateDirInputs ==
    {[name |-> DirName, group |-> g, parent |-> q] : g \in GroupIds, q \in DirIds \cup {NoDir}}
    \cup {[name |-> <<" ">>, group |-> g] : g \in GroupIds}

UpdateDirInputs ==
    {[parent |-> q] : q \in DirIds \cup {NoDir}}
    \cup {[group |-> g] : g \in GroupIds}
    \cup {[name |-> DirRenamed]}

NextDir ==
    \/ CreateGroup("u1", "g1")
    \/ CreateGroup("u2", "g2")
    \/ \E u \in DirCallers, d \in DirIds, data \in CreateDirInputs : CreateDirectory(u, d, data)
    \/ \E u \in DirCallers, d \in DirIds, data \in UpdateDirInputs : UpdateDirectory(u, d, data)
    \/ \E u \in DirCallers, d \in DirIds : DestroyDirectory(u, d)

SpecDir == Init /\ [][NextDir]_vars

\* the directories above d: its parent, the parent's parent, and so on
RECURSIVE AncestorsWithin(_, _)
AncestorsWithin(d, n) ==
    IF n = 0 \/ d \notin DOMAIN directories \/ directories[d].parent = NoDir THEN {}
    ELSE {directories[d].parent} \cup AncestorsWithin(directories[d].parent, n - 1)

Ancestors(d) == AncestorsWithin(d, Cardinality(DOMAIN directories))

\* C21: in every state reached by directory creation and update no directory
\* is in its own ancestor chain; a write that would make one its own
\* ancestor, directly or through other directories, is rejected.
C21_NoDirectoryIsItsOwnAncestor ==
    \A d \in DOMAIN directories : d \notin Ancestors(d)

\* C22: in every state reached by directory creation and update, a directory
\* that has a parent is in the same group as that parent.
C22_ParentInSameGroup ==
    \A d \in DOMAIN directories :
        directories[d].parent # NoDir =>
            /\ directories[d].parent \in DOMAIN directories
            /\ directories[directories[d].parent].group = directories[d].group

DirectoryOps == {"create_directory", "update_directory", "destroy_directory"}

\* the groups a step changes directories of: the group of every row added,
\* removed or rewritten, before and after
GroupsTouched ==
    {directories[d].group : d \in {e \in DOMAIN directories :
                                      e \notin DOMAIN directories' \/ directories'[e] # directories[e]}}
    \cup {directories'[d].group : d \in {e \in DOMAIN directories' :
                                      e \notin DOMAIN directories \/ directories'[e] # directories[e]}}

\* C28: a directory is created in a group, re-parented, renamed, moved to
\* another group or deleted only by a principal who owns that group or holds
\* a membership in it; a request of any other user changes no directory.
C28_OnlyGroupPrincipalsWriteDirectories ==
    [][result'.op \in DirectoryOps =>
          \A g \in GroupsTouched :
              /\ g \in DOMAIN groups
              /\ groups[g].owner = result'.user \/ HasMembership(result'.user, g)
      ]_vars

(***************************************************************************)
(* The secret a record decrypts to (Password.get_password).                *)
(***************************************************************************)
\* Password.get_password of the stored row p
StoredSecret(p) == DecryptPassword(p, passwords[p])

SecretUpdates == {PayloadB, PayloadC}

\* C23: a record decrypts to the secret of the most recent call that set one:
\* a successful create_password leaves the secret of its payload, a successful
\* update_password that carries a secret leaves that secret, and every other
\* step (an update of other fields, a read, a deletion or restoration, a
\* change of the group or of its members) leaves the decrypted secret as it was
C23_DecryptYieldsLastSecret ==
    [][\A p \in DOMAIN passwords' :
          IF result'.op = "create_password" /\ result'.kind = "ok" /\ result'.target = p
          THEN StoredSecret(p)' = <<"ok", PayloadA["password"]>>
          ELSE IF result'.op = "update_password" /\ result'.kind = "ok" /\ result'.target = p
          THEN \E d \in SecretUpdates :
                  /\ UpdatePassword(result'.user, p, d)
                  /\ StoredSecret(p)' = IF SetsPassword(d) THEN <<"ok", d["password"]>>
                                        ELSE StoredSecret(p)
          ELSE /\ p \in DOMAIN passwords
               /\ StoredSecret(p)' = StoredSecret(p)
      ]_vars

\* the secret was replaced by an update, and the read that followed returned a
\* record that decrypts to the replaced secret
C23_Witness ==
    /\ result.op = "get_password"
    /\ result.kind = "ok"
    /\ result.target \in DOMAIN passwords
    /\ Len(history[result.target]) > 1
    /\ StoredSecret(result.target) = <<"ok", Secret2>>

(***************************************************************************)
(* Password._generate_key, called twice with arguments drawn at the start, *)
(* while groups and records are created around the two calls.              *)
(***************************************************************************)
DeriveInputs == {GenerateEncryptionKey(g) : g \in GroupIds} \X PasswordIds

InitDerive ==
    /\ groups = <<>>
    /\ usergroups = {}
    /\ passwords = <<>>
    /\ history = <<>>
    /\ access_logs = <<>>
    /\ clock = 0
    /\ \E a \in DeriveInputs, b \in DeriveInputs :
          result = Reply("_generate_key", NoUser, <<a, b>>, "pending", "", <<>>)
    /\ inflight = [r \in Requests |-> Idle]
    /\ directories = <<>>

\* the next of the two calls: _generate_key(group_key, password_id)
GenerateKeyCall ==
    LET n == Len(result.rows) + 1
    IN  /\ result.op = "_generate_key"
        /\ n <= Len(result.target)
        /\ result' = [result EXCEPT
                         !.rows = Append(@, GenerateKey(result.target[n][1], result.target[n][2])),
                         !.kind = IF n = Len(result.target) THEN "ok" ELSE "pending"]
        /\ UNCHANGED <<dbvars, clock, inflight>>

NextDerive ==
    \/ GenerateKeyCall
    \/ \E u \in {"u1"}, g \in GroupIds : CreateGroupEffect(u, g) /\ UNCHANGED result
    \/ \E u \in {"u1"}, p \in PasswordIds, g \in GroupIds :
          CreatePasswordEffect(u, p, WithGroup(PayloadA, g)) /\ UNCHANGED result

SpecDerive == InitDerive /\ [][NextDerive]_vars

MaxDraw == 1
Draws == 0..MaxDraw

MinGeneratedLength == 4

\* "!@#$%^&*()_+-=[]{}|;:,.<>?"
GeneratorSymbols == <<"!","@","#","$","%","^","&","*","(",")","_","+","-","=",
                      "[","]","{","}","|",";",":",",",".","<",">","?">>
\* "!@#$%^&*"
RequiredSymbols == <<"!","@","#","$","%","^","&","*">>

\* str.replace(c, '')
Replace(s, c) == SelectSeq(s, LAMBDA x : x # c)

\* chars, as generate_password builds it
CharacterSet(o) ==
    LET lower == IF ~o.include_lowercase THEN <<>>
                 ELSE IF o.exclude_ambiguous THEN Replace(Replace(LowerChars, "l"), "o")
                 ELSE LowerChars
        upper == IF ~o.include_uppercase THEN lower
                 ELSE IF o.exclude_ambiguous
                      THEN Replace(Replace(lower \o UpperChars, "I"), "O")
                 ELSE lower \o UpperChars
        numbers == IF ~o.include_numbers THEN upper
                   ELSE IF o.exclude_ambiguous
                        THEN Replace(Replace(upper \o DigitChars, "0"), "1")
                   ELSE upper \o DigitChars
    IN  IF ~o.include_symbols THEN numbers
        ELSE IF o.custom_symbols # <<>> THEN numbers \o o.custom_symbols
        \* the code also removes the backquote, which the symbols do not hold
        ELSE IF o.exclude_ambiguous THEN numbers \o Replace(GeneratorSymbols, "|")
        ELSE numbers \o GeneratorSymbols

Choice(seq, r) == seq[(r % Len(seq)) + 1]

\* no required symbol: the symbol class is left to the draws from chars
RequiredPoolsNoSymbol(o) ==
    (IF o.include_lowercase THEN <<LowerChars>> ELSE <<>>)
    \o (IF o.include_uppercase THEN <<UpperChars>> ELSE <<>>)
    \o (IF o.include_numbers THEN <<DigitChars>> ELSE <<>>)

\* the strings the required_chars are chosen from, in their order
RequiredPools(o) ==
    (IF o.include_lowercase THEN <<LowerChars>> ELSE <<>>)
    \o (IF o.include_uppercase THEN <<UpperChars>> ELSE <<>>)
    \o (IF o.include_numbers THEN <<DigitChars>> ELSE <<>>)
    \o (IF o.include_symbols
        THEN <<IF o.custom_symbols # <<>> THEN o.custom_symbols ELSE RequiredSymbols>>
        ELSE <<>>)

\* the orders SystemRandom().shuffle can leave a list of n items in
Shuffles(n) == {f \in [1..n -> 1..n] : \A i, j \in 1..n : f[i] = f[j] => i = j}

\* the password for the random numbers drawn and the shuffle made
Generated(o, draws, required_draws, shuffle) ==
    LET password == [i \in 1..o.length |-> Choice(CharacterSet(o), draws[i])]
        required_chars == [i \in 1..Len(RequiredPools(o)) |->
                              Choice(RequiredPools(o)[i], required_draws[i])]
        password_list == [i \in 1..o.length |->
                             IF i <= Len(required_chars) THEN required_chars[i]
                             ELSE password[i]]
    IN  [i \in 1..o.length |-> password_list[shuffle[i]]]

GeneratePasswordOutcome(o) ==
    IF o.length < MinGeneratedLength
    THEN <<"ValueError", "Password length must be at least 4 characters">>
    ELSE IF CharacterSet(o) = <<>>
         THEN <<"ValueError", "At least one character type must be selected">>
    ELSE <<"ok", "">>

GeneratePassword ==
    /\ result.op = "generate_password"
    /\ result.kind = "pending"
    /\ LET o == result.target
       IN  IF GeneratePasswordOutcome(o)[1] # "ok"
           THEN result' = [result EXCEPT !.kind = GeneratePasswordOutcome(o)[1],
                                         !.msg = GeneratePasswordOutcome(o)[2]]
           ELSE \E draws \in [1..o.length -> Draws],
                   required_draws \in [1..Len(RequiredPools(o)) -> Draws],
                   shuffle \in Shuffles(o.length) :
                   result' = [result EXCEPT
                                 !.kind = "ok",
                                 !.rows = Generated(o, draws, required_draws, shuffle)]
    /\ UNCHANGED <<dbvars, clock, inflight>>

\* re.search(r'(.)\1{2,}', password)
HasTripleRepeat(s) == \E i \in 1..(Len(s) - 2) : s[i] = s[i + 1] /\ s[i + 1] = s[i + 2]

\* re.search(r'(012|123|234|345|456|567|678|789|890)', password)
DigitRuns == {<<DigitChars[i], DigitChars[i + 1], DigitChars[((i + 1) % 10) + 1]>> : i \in 1..9}
HasDigitRun(s) == \E i \in 1..(Len(s) - 2) : SubSeq(s, i, i + 2) \in DigitRuns

StrengthLabel(score) ==
    IF score >= 80 THEN "Very Strong"
    ELSE IF score >= 60 THEN "Strong"
    ELSE IF score >= 40 THEN "Medium"
    ELSE IF score >= 20 THEN "Weak"
    ELSE "Very Weak"

\* the analysis the statements of check_password_strength compute
StrengthAnalysis(s) ==
    LET score == (IF Len(s) >= 12 THEN 25 ELSE IF Len(s) >= 8 THEN 15 ELSE 0)
                 + (IF Range(s) \cap LowerSet # {} THEN 15 ELSE 0)
                 + (IF Range(s) \cap UpperSet # {} THEN 15 ELSE 0)
                 + (IF Range(s) \cap DigitSet # {} THEN 15 ELSE 0)
                 + (IF Range(s) \cap SymbolChars # {} THEN 20 ELSE 0)
                 + (IF Len(s) >= 16 THEN 10 ELSE 0)
                 - (IF HasTripleRepeat(s) THEN 10 ELSE 0)
                 - (IF HasDigitRun(s) THEN 10 ELSE 0)
    IN  [score |-> score, strength |-> StrengthLabel(score), length |-> Len(s)]

\* the lines of check_password_strength that first read the name re, and that
\* bind it (import re): a name bound anywhere in a function body is local to
\* the whole body, and reading it before it is bound raises UnboundLocalError
ReFirstReadLine == 557
ReImportLine == 597

CheckPasswordStrengthOutcome(s) ==
    IF ReFirstReadLine < ReImportLine
    THEN <<"UnboundLocalError",
           "cannot access local variable 're' where it is not associated with a value",
           <<>>>>
    ELSE <<"ok", "", StrengthAnalysis(s)>>

CheckPasswordStrength ==
    /\ result.op = "check_password_strength"
    /\ result.kind = "pending"
    /\ result' = [result EXCEPT !.kind = CheckPasswordStrengthOutcome(result.target)[1],
                                !.msg = CheckPasswordStrengthOutcome(result.target)[2],
                                !.rows = CheckPasswordStrengthOutcome(result.target)[3]]
    /\ UNCHANGED <<dbvars, clock, inflight>>

GenLengths == {3, 4}
CustomSymbols == {<<>>, <<"~", "-">>}
GeneratorInputs ==
    [length : GenLengths, include_uppercase : BOOLEAN, include_lowercase : BOOLEAN,
     include_numbers : BOOLEAN, include_symbols : BOOLEAN, exclude_ambiguous : BOOLEAN,
     custom_symbols : CustomSymbols]

StrengthInputs ==
    {<<>>, Secret1, Secret2, <<"a","a","a">>, <<"a","b","c","1","2","3">>,
     <<"P","a","s","s","w","o","r","d","!","9","x","y">>}

InitGenerator ==
    /\ groups = <<>>
    /\ usergroups = {}
    /\ passwords = <<>>
    /\ history = <<>>
    /\ access_logs = <<>>
    /\ clock = 0
    /\ \/ \E o \in GeneratorInputs :
             result = Reply("generate_password", NoUser, o, "pending", "", <<>>)
       \/ \E s \in StrengthInputs :
             result = Reply("check_password_strength", NoUser, s, "pending", "", <<>>)
    /\ inflight = [r \in Requests |-> Idle]
    /\ directories = <<>>

NextGenerator ==
    \/ GeneratePassword
    \/ CheckPasswordStrength

SpecGenerator == InitGenerator /\ [][NextGenerator]_vars

SymbolClass(o) ==
    IF o.custom_symbols # <<>> THEN Range(o.custom_symbols) ELSE Range(GeneratorSymbols)

\* C25: a call of generate_password with a length of at least 4 and at least
\* one character class returns a string of exactly that length holding a
\* character of each requested class, whatever is drawn; a length below 4 or no
\* class at all raises ValueError
C25_GeneratedHasLengthAndClasses ==
    (result.op = "generate_password" /\ result.kind # "pending") =>
        LET o == result.target
            none == ~(o.include_lowercase \/ o.include_uppercase
                      \/ o.include_numbers \/ o.include_symbols)
        IN  IF o.length < 4 \/ none THEN result.kind = "ValueError"
            ELSE /\ result.kind = "ok"
                 /\ Len(result.rows) = o.length
                 /\ o.include_lowercase => Range(result.rows) \cap LowerSet # {}
                 /\ o.include_uppercase => Range(result.rows) \cap UpperSet # {}
                 /\ o.include_numbers => Range(result.rows) \cap DigitSet # {}
                 /\ o.include_symbols => Range(result.rows) \cap SymbolClass(o) # {}

\* all four classes were asked for with length 4, and the string returned ends
\* with its lowercase letter: the shuffle moved the required characters
C25_Witness ==
    /\ result.op = "generate_password"
    /\ result.kind = "ok"
    /\ result.target.include_lowercase /\ result.target.include_uppercase
    /\ result.target.include_numbers /\ result.target.include_symbols
    /\ Len(result.rows) = 4
    /\ result.rows[4] \in LowerSet

\* C26: check_password_strength returns, for every string, the analysis with
\* the weighted score (25 or 15 for the length, 15 for each of lowercase,
\* uppercase and digit, 20 for a symbol, 10 for length 16, less 10 for a triple
\* repeat and 10 for a run of three digits) and the label of the thresholds
\* 80 / 60 / 40 / 20
C26_StrengthIsWeightedSum ==
    (result.op = "check_password_strength" /\ result.kind # "pending") =>
        /\ result.kind = "ok"
        /\ result.rows = StrengthAnalysis(result.target)

AmbiguousChars == {"l", "o", "I", "O", "0", "1", "|"}

\* C30: with exclude_ambiguous set and no custom symbols, the string that
\* generate_password returns holds none of l, o, I, O, 0, 1 and |
C30_NoAmbiguousCharacters ==
    (/\ result.op = "generate_password"
     /\ result.kind = "ok"
     /\ result.target.exclude_ambiguous
     /\ result.target.custom_symbols = <<>>) =>
        Range(result.rows) \cap AmbiguousChars = {}

(***************************************************************************)
(* Calls of a user whose membership was removed.                           *)
(***************************************************************************)
RevokeCallers == {"u1", "u2"}

NextRevoke ==
    \/ CreateGroup("u1", "g1")
    \/ \E r \in SpecRoles : AddMember("u1", "g1", "u2", r)
    \/ \E u \in Users : RemoveMember(u, "g1", <<"u2", "g1">>)
    \/ \E u \in RevokeCallers, p \in PasswordIds :
          CreatePassword(u, p, WithGroup(PayloadA, "g1"))
    \/ \E u \in RevokeCallers, p \in PasswordIds : GetPassword(u, p, FALSE)
    \/ \E u \in RevokeCallers, p \in PasswordIds :
          /\ AuditRoom(p, UpdatePasswordOutcome(u, p, PayloadC)[1] = "ok")
          /\ UpdatePassword(u, p, PayloadC)
    \/ \E u \in RevokeCallers, p \in PasswordIds : DeletePassword(u, p, TRUE)
    \/ \E u \in RevokeCallers : SearchPasswords(u, <<>>, <<>>)
    \/ \E u \in RevokeCallers : GetUserPasswords(u, "g1")

SpecRevoke == Init /\ [][NextRevoke]_vars

\* user is neither the owner of group g nor a member of it
Revoked(user, g) ==
    /\ g \in DOMAIN groups
    /\ groups[g].owner # user
    /\ ~HasMembership(user, g)

RecordCalls == {"get_password", "update_password", "delete_password"}
ListCalls == {"search_passwords", "get_user_passwords"}

\* C27: a successful remove_member leaves the removed user without a
\* membership, and a user who is neither member nor owner of a group is denied
\* get_password, update_password and delete_password on the records of the
\* group that user did not create (the call changes nothing), adds no record
\* to the group with create_password, and is returned no record of the group
\* by search_passwords and get_user_passwords
C27_RevocationIsImmediate ==
    [][\A g \in GroupIds :
          /\ (result'.op = "remove_member" /\ result'.kind = "ok" /\ result'.target = g) =>
                \A u \in Users, t \in Users :
                    (/\ u = result'.user
                     /\ HasMembership(t, g)
                     /\ RemoveMember(u, g, <<t, g>>)) => Revoked(t, g)'
          /\ \A u \in Users :
                (Revoked(u, g) /\ result'.user = u) =>
                    /\ (/\ result'.op \in RecordCalls
                        /\ result'.target \in PasswordsOf(g)
                        /\ passwords[result'.target].created_by # u) =>
                           /\ result'.kind # "ok"
                           /\ UNCHANGED dbvars
                    /\ result'.op = "create_password" => PasswordsOf(g)' \subseteq PasswordsOf(g)
                    /\ result'.op \in ListCalls => result'.rows \cap PasswordsOf(g) = {}
      ]_vars

\* a user who created a record of the group as a member, and is a member no
\* longer, was refused the read of a record of the group created by another
C27_Witness ==
    /\ result.op = "get_password"
    /\ result.kind = "PermissionDenied"
    /\ result.target \in DOMAIN passwords
    /\ Revoked(result.user, passwords[result.target].group)
    /\ \E q \in PasswordsOf(passwords[result.target].group) :
          passwords[q].created_by = result.user

(***************************************************************************)
(* Calls on a soft-deleted record: SpecTrash with the permanent deletion.  *)
(***************************************************************************)
NextFrozen ==
    \/ NextTrash
    \/ \E u \in Users, p \in SpecPasswords : DeletePassword(u, p, TRUE)

SpecFrozen == Init /\ [][NextFrozen]_vars

FrozenUpdates == {PayloadB, PayloadC}

\* C29: on a soft-deleted record update_password and delete_password without
\* permanent answer "Password not found" to every user and change nothing;
\* a step that changes the record or its history is a restoration or a
\* permanent deletion; and a DELETED entry is only ever appended to the history
\* of a record that was not soft-deleted at that time
C29_SoftDeletedIsFrozen ==
    [][\A p \in DOMAIN passwords :
          /\ passwords[p].is_deleted =>
                /\ \A u \in Users :
                      /\ DeletePasswordOutcome(u, p, FALSE) = NotFound
                      /\ DeletePassword(u, p, FALSE) => UNCHANGED dbvars
                      /\ \A d \in FrozenUpdates :
                            /\ UpdatePasswordOutcome(u, p, d) = NotFound
                            /\ UpdatePassword(u, p, d) => UNCHANGED dbvars
                /\ (\/ p \notin DOMAIN passwords'
                    \/ passwords'[p] # passwords[p]
                    \/ history'[p] # history[p]) =>
                       \/ result'.op = "admin_restore" /\ ~passwords'[p].is_deleted
                       \/ result'.op = "delete_password" /\ p \notin DOMAIN passwords'
          /\ (/\ p \in DOMAIN history'
              /\ Len(history'[p]) > Len(history[p])
              /\ history'[p][Len(history'[p])].change_type = "deleted") =>
                 ~passwords[p].is_deleted
      ]_vars

\* update_password was answered "Password not found" on a record that is
\* soft-deleted and whose history ends with its DELETED entry
C29_Witness ==
    /\ result.op = "update_password"
    /\ <<result.kind, result.msg>> = NotFound
    /\ result.target \in DOMAIN passwords
    /\ passwords[result.target].is_deleted
    /\ history[result.target][Len(history[result.target])].change_type = "deleted"

====
